---------------------------- MODULE Spec2Model ----------------------------
(***************************************************************************)
(* A model of the bier-rust BIER forwarding daemon: the forwarding engine  *)
(* BierState::process_bier (src/src/bier.rs), the Bitstring operations it  *)
(* uses, the event loop of the daemon (src/src/main.rs), and the header,   *)
(* envelope and bitstring codecs (src/src/header.rs, src/src/api.rs).      *)
(*                                                                         *)
(* A u64 word is the set of its set bit positions (0 = least significant), *)
(* so that & is intersection, & ! is set difference and `word > 0` is      *)
(* non-emptiness; the width of the word (64) is kept.  A Vec is a          *)
(* sequence: Rust index i is TLA+ index i + 1.                             *)
(***************************************************************************)
EXTENDS Integers, Sequences, FiniteSets, TLC

VARIABLES
    bier_state,         \* the BierState: [loopback, bifts]
    arg_bitstring,      \* process_bier's argument original_bitstring
    arg_bift_id,        \* process_bier's argument bift_id
    pb,                 \* the frame of the running process_bier call
    default_unix_path,  \* main: args.default_unix_path (an Option)
    sh_pc,              \* main: "poll", "dups" (in the for loop) or "aborted"
    bier_header,        \* main: the header of the datagram being handled
    received,           \* main: the packet as received or built, before any rewrite
    packet,             \* main: the packet buffer
    bier_next_hops,     \* main: the list process_bier returned
    dup_idx,            \* main: position of the for loop in bier_next_hops
    sent,               \* the send_to calls of this datagram and the one before
    n_read,             \* number of datagrams read so far
    cd_hist,            \* codec calls: the values, the input first
    cd_ops,             \* codec calls: the call between value k and k + 1
    nodes,              \* bier-config: Graph.nodes, as read from the topology file
    cfg_node,           \* bier-config: the loop variable `node` of get_bier_config
    files,              \* bier-config: the JSON documents written, file k first
    loaded,             \* main: the outcome of reading a configuration (an Option)
    saved,              \* the loaded state serialized again (an Option)
    reloaded,           \* the outcome of reading `saved` (an Option)
    net                 \* the domain: the packets in flight and what the BFRs did

engine_vars == <<arg_bitstring, arg_bift_id, pb>>
shell_vars == <<default_unix_path, sh_pc, bier_header, received, packet,
                bier_next_hops, dup_idx, sent, n_read>>
codec_vars == <<cd_hist, cd_ops>>
config_vars == <<nodes, cfg_node, files, loaded, saved, reloaded>>
vars == <<bier_state, engine_vars, shell_vars, codec_vars, config_vars, net>>

-----------------------------------------------------------------------------
(* Program constants and the bounds of the model.                          *)

\* The width of a bitstring word (u64).
WordBits == 64

\* Destination bits 1..NLow live in the last word of a bitstring.
NLow == 2
\* Destination bits 65..64+NHigh live in the word before the last.
NHigh == 2
\* Input bitstrings and F-BMs have 1..MaxWords words.
MaxWords == 2
\* Number of distinct neighbours (next hops) of the BFR.
NHops == 2
\* A free-form BIFT has 0..MaxFreeEntries entries.
MaxFreeEntries == 2
\* The daemon is followed over MaxDatagrams inbound datagrams.
MaxDatagrams == 2
\* Inbound packets address destination bits 1..MaxShellBits.
MaxShellBits == 2

Min(a, b) == IF a < b THEN a ELSE b

-----------------------------------------------------------------------------
(* Bitstring (src/src/bier.rs).                                            *)

\* BitstringOp
BitstringOp == {"And", "AndNot"}

\* BiftType
BiftType == {"Bier", "BierTe"}

\* An update that keeps the words of self beyond the shorter operand.
update_keep_tail(self, other, bitop) ==
    [i \in 1..Len(self) |->
        IF i > Len(other) THEN self[i]
        ELSE IF bitop = "And" THEN self[i] \cap other[i]
                              ELSE self[i] \ other[i]]

\* Bitstring::update: zip stops at the shorter operand, so the result has
\* min(|self|, |other|) words, paired by index from word 0.
update(self, other, bitop) ==
    [i \in 1..Min(Len(self), Len(other)) |->
        IF bitop = "And" THEN self[i] \cap other[i]
                         ELSE self[i] \ other[i]]

\* The bits of a bitstring by the numbering of the header: bit k is at
\* position (k-1) mod 64 of word len-1-(k-1)/64.
BitsOf(bs) ==
    UNION { { WordBits * (Len(bs) - i) + p + 1 : p \in bs[i] } : i \in 1..Len(bs) }

\* The bitstring of w words whose set bits are those of `bits` (below 64w).
BitstringOf(bits, w) ==
    [i \in 1..w |->
        { p \in 0..(WordBits - 1) : WordBits * (w - i) + p + 1 \in bits }]

-----------------------------------------------------------------------------
(* Bytes.  A byte slice is a sequence over 0..255; Rust offset i is TLA+    *)
(* index i + 1.                                                            *)

Pow2(n) == 2 ^ n

\* Bit i (0 = least significant) of the number n.
BitSet(n, i) == (n \div Pow2(i)) % 2 = 1

\* The number whose set bits are the members of S.
RECURSIVE NumOf(_)
NumOf(S) == IF S = {} THEN 0
            ELSE LET p == CHOOSE x \in S : TRUE IN Pow2(p) + NumOf(S \ {p})

\* slice[a..b] (offsets, b exclusive).
Slice(s, a, b) == SubSeq(s, a + 1, b)

\* u64::from_be_bytes of an 8-byte chunk: chunk[0] is the most significant byte.
from_be_bytes(chunk) ==
    { p \in 0..(WordBits - 1) : BitSet(chunk[8 - (p \div 8)], p % 8) }

\* u64::to_be_bytes: the 8 bytes of a word, most significant first.
to_be_bytes(word) ==
    [j \in 1..8 |-> NumOf({ i \in 0..7 : 8 * (8 - j) + i \in word })]

RECURSIVE Flatten(_)
Flatten(ss) == IF ss = <<>> THEN <<>> ELSE Head(ss) \o Flatten(Tail(ss))

\* The words of a bitstring as bytes: word 0 first, each big-endian.
BitstringBytes(bs) == Flatten([i \in 1..Len(bs) |-> to_be_bytes(bs[i])])

\* get_unchecked_be_u16 / get_unchecked_be_u32 at offset off.
get_unchecked_be_u16(s, off) == s[off + 1] * 256 + s[off + 2]
get_unchecked_be_u32(s, off) ==
    ((s[off + 1] * 256 + s[off + 2]) * 256 + s[off + 3]) * 256 + s[off + 4]

\* u32::to_be_bytes of the value hi * 65536 + lo taken modulo 2^32, kept in
\* two halves (lo may exceed 16 bits and carries into hi).
U32BeBytes(hi, lo) ==
    LET h == (hi + (lo \div 65536)) % 65536
        l == lo % 65536
    IN  << h \div 256, h % 256, l \div 256, l % 256 >>

\* Result<T>: Ok(v) or Err(e).  A panic (a failed assert_eq!, an index out of
\* range, an overflow check, an unwrap of Err) unwinds: the caller gets no value.
Ok(v) == [tag |-> "Ok", err |-> "", val |-> v]
Err(e) == [tag |-> "Err", err |-> e, val |-> <<>>]
Panic(why) == [tag |-> "Panic", err |-> why, val |-> <<>>]

-----------------------------------------------------------------------------
(* Bitstring codecs (src/src/bier.rs).                                     *)

\* Bitstring::is_valid
is_valid(slice) == Len(slice) \in {8, 16, 32, 64, 128, 256}

\* TryFrom<&[u8]> for Bitstring: the slice read as u64 words, each made
\* big-endian.
Bitstring_try_from(value) ==
    IF ~is_valid(value) THEN Err("BitstringLength")
    ELSE Ok([i \in 1..(Len(value) \div 8) |->
                from_be_bytes(Slice(value, 8 * (i - 1), 8 * i))])

\* Bitstring::update_header_from_self: the length check compares with
\* 12 + the number of WORDS; the slice header[12..12 + 8 * words] panics when
\* the buffer is shorter than that.  Gives the outcome and the buffer.
BIER_MINIMUM_HEADER_LENGTH == 20
BIER_HEADER_WITHOUT_BITSTRING_LENGTH == 12

\* An update_header_from_self that cuts the buffer after the bitstring.
update_header_drop_payload(self, header) ==
    IF Len(header) < BIER_HEADER_WITHOUT_BITSTRING_LENGTH + Len(self) * 8
    THEN [res |-> Err("BitstringLength"), header |-> header]
    ELSE [res |-> Ok(<<>>),
          header |-> Slice(header, 0, BIER_HEADER_WITHOUT_BITSTRING_LENGTH)
                     \o BitstringBytes(self)]

update_header_from_self(self, header) ==
    IF Len(header) < BIER_HEADER_WITHOUT_BITSTRING_LENGTH + Len(self)
    THEN [res |-> Err("BitstringLength"), header |-> header]
    ELSE IF Len(header) < BIER_HEADER_WITHOUT_BITSTRING_LENGTH + Len(self) * 8
    THEN [res |-> Panic("range end index out of range"), header |-> header]
    ELSE [res |-> Ok(<<>>),
          header |-> Slice(header, 0, BIER_HEADER_WITHOUT_BITSTRING_LENGTH)
                     \o BitstringBytes(self)
                     \o Slice(header, BIER_HEADER_WITHOUT_BITSTRING_LENGTH + Len(self) * 8,
                              Len(header))]

-----------------------------------------------------------------------------
(* The textual form of a bitstring (src/src/bier.rs).  A str is the        *)
(* sequence of its bytes; the characters met here are ASCII.               *)

Char0 == 48
Char1 == 49
CharPlus == 43

\* u64::from_str_radix(substr, 2): an optional '+', then binary digits, the
\* last one the least significant.
from_str_radix(substr) ==
    LET digits == IF substr # <<>> /\ substr[1] = CharPlus THEN Tail(substr) ELSE substr
        n == Len(digits)
    IN  IF substr = <<>> THEN Err("Empty")
        ELSE IF digits = <<>> \/ \E j \in 1..n : digits[j] \notin {Char0, Char1}
        THEN Err("InvalidDigit")
        ELSE IF \E j \in 1..n : digits[j] = Char1 /\ n - j >= WordBits
        THEN Err("PosOverflow")
        ELSE Ok({ k \in 0..(n - 1) : digits[n - k] = Char1 })

\* FromStr for Bitstring: ceil(len / 64) words; word i is parsed from the 64
\* characters that start at len - 64 (i + 1), or at 0 when that is negative.
Bitstring_from_str(str_bitstring) ==
    LET len == Len(str_bitstring)
        len_of_64_bits == (len + WordBits - 1) \div WordBits
        lower_bound(i) == IF len >= WordBits * (i + 1) THEN len - WordBits * (i + 1) ELSE 0
        upper_bound(i) == Min(lower_bound(i) + WordBits, len)
        word(i) == from_str_radix(Slice(str_bitstring, lower_bound(i), upper_bound(i)))
    IN  IF \E i \in 0..(len_of_64_bits - 1) : word(i).tag = "Err"
        THEN Err("Impossible to parse")
        ELSE Ok([i \in 1..len_of_64_bits |-> word(i - 1).val])

\* format!("{:064b}", v): the 64 binary digits of a word, the most
\* significant first.
format_064b(v) == [j \in 1..WordBits |-> IF (WordBits - j) \in v THEN Char1 ELSE Char0]

\* A serialization that writes the words in the order of the vector.
Bitstring_serialize_in_order(self) ==
    Flatten([i \in 1..Len(self) |-> format_064b(self[i])])

\* Serialize for Bitstring: the words from the last to the first, each as
\* 64 digits.
Bitstring_serialize(self) ==
    Flatten([i \in 1..Len(self) |-> format_064b(self[Len(self) + 1 - i])])

-----------------------------------------------------------------------------
(* BierHeader (src/src/header.rs).                                         *)

get_bift_id(slice) == slice[1] * 4096 + slice[2] * 16 + (slice[3] \div 16)
get_tc(slice) == (slice[3] % 16) \div 2
get_s(slice) == slice[3] % 2 = 1
get_ttl(slice) == slice[4]
get_nibble(slice) == slice[5] \div 16
get_version(slice) == slice[5] % 16
get_bsl(slice) == slice[6] \div 16
get_entropy(slice) == (slice[6] % 16) * 65536 + slice[7] * 256 + slice[8]
get_oam(slice) == slice[9] \div 64
get_rsv(slice) == (slice[9] % 64) \div 16
get_dscp(slice) == (get_unchecked_be_u16(slice, 8) % 4096) \div 64
\* A proto getter that keeps the whole byte.
get_proto_byte(slice) == slice[10]
get_proto(slice) == slice[10] % 64
get_bifr_id(slice) == get_unchecked_be_u16(slice, 10)

\* get_bitstring: chunks(8) of slice[12..]; a last chunk shorter than 8
\* bytes fails the try_into().unwrap().  The Vec<u64> becomes a Bitstring by
\* From<Vec<u64>> (bier.rs:173), which accepts any word count.
get_bitstring(slice) ==
    LET n == Len(slice) - 12 IN
    IF n % 8 # 0 THEN Panic("unwrap on Err")
    ELSE Ok([i \in 1..(n \div 8) |->
                from_be_bytes(Slice(slice, 12 + 8 * (i - 1), 12 + 8 * i))])

\* A from_slice that checks the minimum length only and parses the 20 bytes.
from_slice_minimum_only(slice) ==
    IF Len(slice) < BIER_MINIMUM_HEADER_LENGTH THEN Err("Header")
    ELSE LET sl == Slice(slice, 0, BIER_MINIMUM_HEADER_LENGTH) IN
         Ok([bift_id |-> get_bift_id(sl), tc |-> get_tc(sl),
             s |-> get_s(sl), ttl |-> get_ttl(sl),
             nibble |-> get_nibble(sl), ver |-> get_version(sl),
             bsl |-> get_bsl(sl), entropy |-> get_entropy(sl),
             oam |-> get_oam(sl), dscp |-> get_dscp(sl),
             rsv |-> get_rsv(sl), proto |-> get_proto(sl),
             bfr_id |-> get_bifr_id(sl), bitstring |-> get_bitstring(sl).val])

\* BierHeader::from_slice
BierHeader_from_slice(slice) ==
    IF Len(slice) < BIER_MINIMUM_HEADER_LENGTH THEN Err("Header")
    ELSE LET bsl == slice[6] \div 16
             bitstring_length == Pow2(bsl + 5) \div 8
         IN  IF Len(slice) < BIER_HEADER_WITHOUT_BITSTRING_LENGTH + bitstring_length
             THEN Err("Header")
             ELSE LET sl == Slice(slice, 0, BIER_HEADER_WITHOUT_BITSTRING_LENGTH + bitstring_length)
                      bs == get_bitstring(sl)
                  IN  IF bs.tag # "Ok" THEN bs
                      ELSE Ok([bift_id |-> get_bift_id(sl), tc |-> get_tc(sl),
                               s |-> get_s(sl), ttl |-> get_ttl(sl),
                               nibble |-> get_nibble(sl), ver |-> get_version(sl),
                               bsl |-> get_bsl(sl), entropy |-> get_entropy(sl),
                               oam |-> get_oam(sl), dscp |-> get_dscp(sl),
                               rsv |-> get_rsv(sl), proto |-> get_proto(sl),
                               bfr_id |-> get_bifr_id(sl), bitstring |-> bs.val])

\* BierHeader::header_length
header_length(self) == BIER_HEADER_WITHOUT_BITSTRING_LENGTH + Len(self.bitstring) * 8

\* BierHeader::to_slice: the three u32 words and the bitstring, written over
\* the head of the buffer.  Each u32 is kept in two 16-bit halves; the fields
\* of a header the daemon builds never make a sum pass 2^32.
BierHeader_to_slice(self, slice) ==
    IF Len(slice) < header_length(self)
    THEN [res |-> Err("SliceWrongLength"), slice |-> slice]
    ELSE [res |-> Ok(<<>>),
          slice |->
            U32BeBytes((self.bift_id \div 16) % 65536,
                       (self.bift_id % 16) * 4096 + self.tc * 512
                         + (IF self.s THEN 256 ELSE 0) + self.ttl)
            \o U32BeBytes((self.nibble * 4096 + self.ver * 256 + self.bsl * 16
                             + (self.entropy \div 65536)) % 65536,
                          self.entropy % 65536)
            \o U32BeBytes(self.oam * 16384 + self.rsv * 4096 + self.dscp * 64 + self.proto,
                          self.bfr_id)
            \o BitstringBytes(self.bitstring)
            \o Slice(slice, header_length(self), Len(slice))]

\* Default for BierHeader, with the bitstring given.
DefaultHeader ==
    [bift_id |-> 0, tc |-> 0, s |-> FALSE, ttl |-> 0, nibble |-> 0, ver |-> 0,
     bsl |-> 0, entropy |-> 0, oam |-> 0, dscp |-> 0, rsv |-> 0, proto |-> 0,
     bfr_id |-> 0, bitstring |-> <<>>]

\* floor(log2(n)) for n >= 1.
RECURSIVE Log2(_)
Log2(n) == IF n <= 1 THEN 0 ELSE 1 + Log2(n \div 2)

\* BierHeader::from_recv_info: `recv_info.proto as u8` keeps the low 8 bits.
from_recv_info(recv_info) ==
    LET bitstring == Bitstring_try_from(recv_info.bitstring) IN
    IF bitstring.tag # "Ok" THEN bitstring
    ELSE LET bits == Len(bitstring.val) * 64
             bsl == IF bits = 8 THEN 1 ELSE IF bits = 16 THEN 2 ELSE Log2(bits) - 5
         IN  Ok([DefaultHeader EXCEPT !.bift_id = recv_info.bift_id,
                                      !.bitstring = bitstring.val,
                                      !.proto = recv_info.proto % 256,
                                      !.bsl = bsl % 256])

-----------------------------------------------------------------------------
(* CommunicationInfo (src/src/api.rs).                                     *)

\* CommunicationInfo::from_slice.  On a slice shorter than 8 bytes the three
\* unchecked reads give values the slice does not decide, and the length test
\* fails whatever they are.
CommunicationInfo_from_slice(slice) ==
    IF Len(slice) < 8 THEN Err("SliceWrongLength")
    ELSE LET bift_id == get_unchecked_be_u32(slice, 0)
             proto == get_unchecked_be_u16(slice, 4)
             bitstring_length == get_unchecked_be_u16(slice, 6)
         IN  IF Len(slice) < 4 + 2 + 2 + bitstring_length
             THEN Err("SliceWrongLength")
             ELSE Ok([bift_id |-> bift_id, proto |-> proto,
                      bitstring |-> Slice(slice, 8, 8 + bitstring_length),
                      payload |-> Slice(slice, 8 + bitstring_length, Len(slice))])

\* A to_slice that writes the bitstring length in 1 byte.
to_slice_short_length(self) ==
    << (self.bift_id \div 16777216) % 256, (self.bift_id \div 65536) % 256,
       (self.bift_id \div 256) % 256, self.bift_id % 256,
       (self.proto \div 256) % 256, self.proto % 256,
       Len(self.bitstring) % 256 >>
    \o self.bitstring \o self.payload \o <<0>>

\* CommunicationInfo::to_slice on a buffer of exactly the length needed.
CommunicationInfo_to_slice(self) ==
    << (self.bift_id \div 16777216) % 256, (self.bift_id \div 65536) % 256,
       (self.bift_id \div 256) % 256, self.bift_id % 256,
       (self.proto \div 256) % 256, self.proto % 256,
       (Len(self.bitstring) \div 256) % 256, Len(self.bitstring) % 256 >>
    \o self.bitstring \o self.payload

-----------------------------------------------------------------------------
(* BierState::process_bier, one loop step at a time.                       *)

\* Option<T>: None is the empty sequence, Some(x) the sequence of x alone.
None == <<>>
Some(x) == <<x>>

NoRet == [tag |-> "None", err |-> "", val |-> <<>>]

\* The frame before the call's first statement.
Frame0 ==
    [pc |-> "entry", bitstring |-> <<>>, out |-> <<>>, bfr_idx |-> 0,
     idx_u64_word |-> 0, bitstring_word |-> {}, ret |-> NoRet]

Return(st, r) == [st EXCEPT !.pc = "done", !.ret = r]

\* Lines 20-34: the BIFT lookup and the two assertions.
\* `bift_id - 1` on a usize of 0 panics where overflow checks are compiled in
\* and wraps to usize::MAX elsewhere (then .get() gives None).
process_bier_entry(self, original_bitstring, bift_id, st) ==
    IF bift_id = 0
    THEN { Return(st, Panic("attempt to subtract with overflow")),
           Return(st, Err("BiftId")) }
    ELSE IF bift_id > Len(self.bifts)
    THEN { Return(st, Err("BiftId")) }
    ELSE LET bift == self.bifts[bift_id] IN
         IF bift.bift_id # bift_id
         THEN { Return(st, Panic("assert_eq bift_id")) }
         ELSE IF bift.bift_type # "Bier"
         THEN { Return(st, Panic("assert_eq bift_type")) }
         ELSE { [st EXCEPT !.pc = "for",
                           !.bitstring = original_bitstring,
                           !.out = <<>>,
                           !.bfr_idx = 0,
                           !.idx_u64_word = 0] }

\* Lines 37-38: the head of `for idx_u64_word in 0..bitstring_number_u64`
\* and the read of the word.  bitstring_number_u64 is the word count of the
\* ORIGINAL bitstring; the index is checked against the current one.
process_bier_for(self, original_bitstring, bift_id, st) ==
    LET bitstring_number_u64 == Len(original_bitstring)
        idx == bitstring_number_u64 - 1 - st.idx_u64_word
    IN  IF st.idx_u64_word >= bitstring_number_u64
        THEN { Return(st, Ok(st.out)) }
        ELSE IF idx + 1 > Len(st.bitstring)
        THEN { Return(st, Panic("index out of bounds")) }
        ELSE { [st EXCEPT !.pc = "while",
                          !.bitstring_word = st.bitstring[idx + 1]] }

\* `bift.bfr_id - 1` on a u64: the outcomes of the subtraction as a set of
\* [panic, value]; value -1 stands for the wrapped u64::MAX, which no bfr_idx
\* equals.
SubOne(n) ==
    IF n = 0 THEN { [panic |-> TRUE, value |-> 0], [panic |-> FALSE, value |-> -1] }
             ELSE { [panic |-> FALSE, value |-> n - 1] }

\* Lines 43-70: the body of `if ((bitstring_word >> (bfr_idx % 64)) & 1) == 1`.
process_bier_bit(self, original_bitstring, bift_id, st) ==
    LET bift == self.bifts[bift_id]
        bitstring_number_u64 == Len(original_bitstring)
        idx == bitstring_number_u64 - 1 - st.idx_u64_word
    IN  IF st.bfr_idx + 1 > Len(bift.entries)
        THEN { Return(st, Err("NoEntry")) }
        ELSE LET bift_entry == bift.entries[st.bfr_idx + 1] IN
        IF bift_entry.bit - 1 # st.bfr_idx
        THEN { Return(st, Panic("assert_eq bit")) }
        ELSE IF Len(bift_entry.paths) = 0
        THEN { Return(st, Err("NoEntry")) }
        ELSE LET bier_entry_path == bift_entry.paths[1]
                 dst_bitstring == update(st.bitstring, bier_entry_path.bitstring, "And")
                 new_bitstring == update(st.bitstring, bier_entry_path.bitstring, "AndNot")
             IN  UNION {
                   IF own.panic
                   THEN { Return(st, Panic("attempt to subtract with overflow")) }
                   ELSE LET nxt_hop_ip ==
                                IF st.bfr_idx = own.value THEN None
                                ELSE Some(bier_entry_path.next_hop)
                            pushed == Append(st.out, <<dst_bitstring, nxt_hop_ip>>)
                        IN  IF idx + 1 > Len(new_bitstring)
                            THEN { Return([st EXCEPT !.out = pushed,
                                                     !.bitstring = new_bitstring],
                                          Panic("index out of bounds")) }
                            ELSE { [st EXCEPT !.out = pushed,
                                              !.bitstring = new_bitstring,
                                              !.bitstring_word = new_bitstring[idx + 1],
                                              !.bfr_idx = st.bfr_idx + 1] }
                   : own \in SubOne(bift.bfr_id) }

\* Lines 41-73: one evaluation of `while bitstring_word > 0` and, when it
\* holds, one iteration of its body.
process_bier_while(self, original_bitstring, bift_id, st) ==
    IF st.bitstring_word = {}
    THEN { [st EXCEPT !.pc = "for", !.idx_u64_word = st.idx_u64_word + 1] }
    ELSE IF (st.bfr_idx % WordBits) \in st.bitstring_word
    THEN process_bier_bit(self, original_bitstring, bift_id, st)
    ELSE { [st EXCEPT !.bfr_idx = st.bfr_idx + 1] }

\* The successors of a frame.
process_bier_step(self, original_bitstring, bift_id, st) ==
    CASE st.pc = "entry" -> process_bier_entry(self, original_bitstring, bift_id, st)
      [] st.pc = "for"   -> process_bier_for(self, original_bitstring, bift_id, st)
      [] st.pc = "while" -> process_bier_while(self, original_bitstring, bift_id, st)
      [] OTHER           -> {}

-----------------------------------------------------------------------------
(* The BFR states and the bitstrings the engine is run on.                 *)

LowBits == 1..NLow
HighBits == (WordBits + 1)..(WordBits + NHigh)

\* The address of neighbour h; 0 is the loopback of the BFR itself.
Hops == 1..NHops
FillerHop == NHops + 1

BierEntryPath(fbm, nh) == [bitstring |-> fbm, next_hop |-> nh]
BiftEntry(b, ps) == [bit |-> b, paths |-> ps]
Bift(id, ty, own, es) ==
    [bift_id |-> id, bift_type |-> ty, bfr_id |-> own, entries |-> es]

\* A BIER-TE table: process_bier supports none.
TeBift == Bift(2, "BierTe", 1, <<>>)

\* A BFR state whose first BIFT is b and whose second is a BIER-TE table.
StateOf(b) == [loopback |-> 0, bifts |-> <<b, TeBift>>]

\* The BIFT of a domain of n BFRs in which destination d is reached through
\* neighbour nh[d], the F-BM of a path through h holding every destination
\* routed through h: the table the builder's aggregation step produces.
\* The destinations outside dom(nh) are all reached through FillerHop.
AggregatedBift(n, nh, own, fw) ==
    LET D == DOMAIN nh
        hop(d) == IF d \in D THEN nh[d] ELSE FillerHop
        via(h) == { d \in D \ {own} : nh[d] = h }
        rest == ((1..n) \ D) \ {own}
        fbm == [h \in Hops \cup {FillerHop} |->
                   BitstringOf(IF h = FillerHop THEN rest ELSE via(h), fw)]
        paths == [h \in Hops \cup {FillerHop} |-> << BierEntryPath(fbm[h], h) >>]
        local == << BierEntryPath(BitstringOf({own}, fw), 0) >>
    IN  Bift(1, "Bier", own,
             [i \in 1..n |->
                 BiftEntry(i, IF i = own THEN local ELSE paths[hop(i)])])

\* The aggregated BIFTs with F-BMs of 1..W words: a domain of NLow BFRs, and
\* one that reaches into the second word.
AggregatedBifts(W) ==
    { AggregatedBift(n, nh, own, fw) :
        n \in {NLow}, nh \in [LowBits -> Hops], own \in LowBits, fw \in 1..W }
    \cup
    { AggregatedBift(WordBits + NHigh, nh, own, fw) :
        nh \in [LowBits \cup HighBits -> Hops], own \in LowBits \cup HighBits,
        fw \in 1..W }

\* F-BMs of any content: every bitstring of 1..MaxWords words over the low
\* bits and the first high bit.
FreeFbms ==
    { BitstringOf(S, 1) : S \in SUBSET LowBits }
    \cup { BitstringOf(S, w) : S \in SUBSET (LowBits \cup {WordBits + 1}), w \in 2..MaxWords }

\* The path lists of an entry of a free-form BIFT: none, or one path.
FreePaths ==
    { <<>> } \cup { << BierEntryPath(f, h) >> : f \in FreeFbms, h \in Hops }

\* BIFTs with correctly numbered entries and any F-BMs.
FreeBifts ==
    { Bift(1, "Bier", own, [i \in 1..n |-> BiftEntry(i, ps[i])]) :
        n \in 0..MaxFreeEntries, own \in {1}, ps \in [1..MaxFreeEntries -> FreePaths] }

\* The BIFT of the tests' configuration (get_dummy_config_json): five BFRs,
\* the local one first, neighbours fc00:b::1 (1) and fc00:c::1 (2), F-BMs
\* 00001, 11010 and 11100; the entries of bits 4 and 5 list both neighbours.
DummyBift ==
    LET fa == BitstringOf({1}, 1)
        fb == BitstringOf({2, 4, 5}, 1)
        fc == BitstringOf({3, 4, 5}, 1)
    IN  Bift(1, "Bier", 1,
             << BiftEntry(1, << BierEntryPath(fa, 0) >>),
                BiftEntry(2, << BierEntryPath(fb, 1) >>),
                BiftEntry(3, << BierEntryPath(fc, 2) >>),
                BiftEntry(4, << BierEntryPath(fb, 1), BierEntryPath(fc, 2) >>),
                BiftEntry(5, << BierEntryPath(fb, 1), BierEntryPath(fc, 2) >> ) >>)

\* Configurations that break an invariant the loader does not check: a BIFT
\* whose bift_id is not its position, an entry whose bit is not its
\* position, a bfr_id of 0.
DefectBifts ==
    { [DummyBift EXCEPT !.bift_id = 2], [DummyBift EXCEPT !.bfr_id = 0] }
    \cup { [DummyBift EXCEPT !.entries[k].bit = k + 1] : k \in 1..Len(DummyBift.entries) }
    \cup { [DummyBift EXCEPT !.entries[k].bit = k + 1, !.entries[k].paths = <<>>] :
              k \in 1..Len(DummyBift.entries) }

DummyInputs == { BitstringOf(S, 1) : S \in SUBSET (1..(Len(DummyBift.entries) + 1)) }

\* The input bitstrings: every bitstring of 1..MaxWords words over the low
\* bits, one bit past them, and the high bits.
Inputs ==
    { BitstringOf(S, 1) : S \in SUBSET (1..(NLow + 1)) }
    \cup { BitstringOf(S, w) : S \in SUBSET ((1..(NLow + 1)) \cup HighBits), w \in 2..MaxWords }

-----------------------------------------------------------------------------
(* The forwarding engine run on its own: one process_bier call.            *)

\* No codec call is recorded.
CodecIdle ==
    /\ cd_hist = <<>>
    /\ cd_ops = <<>>

\* No configuration is built or read, and no domain is followed.
ConfigIdle ==
    /\ nodes = <<>>
    /\ cfg_node = 0
    /\ files = <<>>
    /\ loaded = <<>>
    /\ saved = <<>>
    /\ reloaded = <<>>
    /\ net = <<>>

\* The daemon before its first datagram.
ShellIdle ==
    /\ sh_pc = "poll"
    /\ bier_header = DefaultHeader
    /\ received = <<>>
    /\ packet = <<>>
    /\ bier_next_hops = <<>>
    /\ dup_idx = 1
    /\ sent = <<>>
    /\ n_read = 0

InitEngine ==
    /\ \/ /\ \E b \in AggregatedBifts(MaxWords) \cup FreeBifts : bier_state = StateOf(b)
          /\ arg_bitstring \in Inputs
       \/ /\ \E b \in {DummyBift} \cup DefectBifts : bier_state = StateOf(b)
          /\ arg_bitstring \in DummyInputs
    /\ arg_bift_id \in 0..3
    /\ pb = Frame0
    /\ default_unix_path = None
    /\ ShellIdle
    /\ CodecIdle
    /\ ConfigIdle

\* Lines 20-34.
Enter ==
    /\ pb.pc = "entry"
    /\ pb' \in process_bier_entry(bier_state, arg_bitstring, arg_bift_id, pb)
    /\ UNCHANGED <<bier_state, arg_bitstring, arg_bift_id, shell_vars, codec_vars, config_vars, net>>

\* Lines 37-38.
ForWord ==
    /\ pb.pc = "for"
    /\ pb' \in process_bier_for(bier_state, arg_bitstring, arg_bift_id, pb)
    /\ UNCHANGED <<bier_state, arg_bitstring, arg_bift_id, shell_vars, codec_vars, config_vars, net>>

\* Lines 41-73.
WhileWord ==
    /\ pb.pc = "while"
    /\ pb' \in process_bier_while(bier_state, arg_bitstring, arg_bift_id, pb)
    /\ UNCHANGED <<bier_state, arg_bitstring, arg_bift_id, shell_vars, codec_vars, config_vars, net>>

NextEngine == Enter \/ ForWord \/ WhileWord

SpecEngine == InitEngine /\ [][NextEngine]_vars

\* A call that has started runs on: every step of process_bier is taken by
\* the thread that made the call.
SpecEngineFair == SpecEngine /\ WF_vars(NextEngine)

-----------------------------------------------------------------------------
(* The daemon's event loop (src/src/main.rs).                              *)

\* The results a whole process_bier call can give.
RECURSIVE process_bier_run(_, _, _, _)
process_bier_run(self, original_bitstring, bift_id, st) ==
    IF st.pc = "done" THEN { st.ret }
    ELSE UNION { process_bier_run(self, original_bitstring, bift_id, nx) :
                    nx \in process_bier_step(self, original_bitstring, bift_id, st) }

process_bier(self, original_bitstring, bift_id) ==
    process_bier_run(self, original_bitstring, bift_id, Frame0)

\* The path of the default local endpoint, when one is configured.
DefaultPath == "default.sock"

\* A header as a sender writes it: BSL from the width, TTL 64.
WireHeader(id, bs) ==
    [DefaultHeader EXCEPT !.bift_id = id, !.bitstring = bs, !.ttl = 64,
                          !.bsl = Log2(Len(bs) * 64) - 5]

Payload == << 170, 187 >>

\* A BIER packet: the header bytes and the payload.
WirePacket(id, bs) ==
    BierHeader_to_slice(WireHeader(id, bs),
                        [i \in 1..header_length(WireHeader(id, bs)) |-> 0]).slice
    \o Payload

\* The packets' bitstrings: every set of the first destination bits, the set
\* of all the BFRs of the tests' configuration, a bit with no entry, and
\* bitstrings of two words.
ShellBitstrings ==
    { BitstringOf(S, 1) : S \in SUBSET (1..MaxShellBits) }
    \cup { BitstringOf(1..Len(DummyBift.entries), 1),
           BitstringOf({Len(DummyBift.entries) + 1}, 1),
           BitstringOf({1}, 2), BitstringOf({WordBits + 1}, 2) }

\* Datagrams on the raw IPv6 endpoint: well-formed packets for BIFT-IDs 0..3,
\* and malformed ones: empty, cut below 20 bytes, a BSL announcing more
\* bytes than the datagram has, a BSL of 0.
IpDatagrams ==
    { WirePacket(1, bs) : bs \in ShellBitstrings }
    \cup { WirePacket(id, BitstringOf({2}, 1)) : id \in {0, 2, 3} }
    \cup { <<>>,
           Slice(WirePacket(1, BitstringOf({2}, 1)), 0, 10),
           [WirePacket(1, BitstringOf({2}, 1)) EXCEPT ![6] = 32],
           [WirePacket(1, BitstringOf({2}, 1)) EXCEPT ![6] = 0] }

\* A control envelope as an application writes it.
Envelope(id, proto, bsbytes) ==
    CommunicationInfo_to_slice(
        [bift_id |-> id, proto |-> proto, bitstring |-> bsbytes, payload |-> Payload])

\* Datagrams on the local endpoint: well-formed envelopes, and malformed
\* ones: empty, shorter than the 8-byte prefix, shorter than
\* 8 + bitstring_length, a bitstring of 4 bytes.
UnixDatagrams ==
    { Envelope(1, 36, BitstringBytes(bs)) : bs \in ShellBitstrings }
    \cup { Envelope(id, 36, BitstringBytes(BitstringOf({2}, 1))) : id \in {0, 2, 3} }
    \cup { <<>>,
           Slice(Envelope(1, 36, BitstringBytes(BitstringOf({2}, 1))), 0, 5),
           Slice(Envelope(1, 36, BitstringBytes(BitstringOf({2}, 1))), 0, 12),
           Envelope(1, 36, << 0, 0, 0, 2 >>) }

InitShell ==
    /\ bier_state = StateOf(DummyBift)
    /\ default_unix_path \in { None, Some(DefaultPath) }
    /\ ShellIdle
    /\ arg_bitstring = <<>>
    /\ arg_bift_id = 0
    /\ pb = Frame0
    /\ CodecIdle
    /\ ConfigIdle

\* main.rs:84-87 leaves the loop when poll() returns no event; with no
\* timeout (None) poll() returns only with an event, so that exit is not a
\* step of the model.

\* The log keeps the sends of the datagram in hand and of the one before:
\* when a datagram is read, the sends older than the last datagram's go.
LastDatagram(log, n) ==
    LET Last(e) == e.dgram = n IN SelectSeq(log, Last)

\* The datagram is dropped (`continue`) or the process ends (a panic).
Drop(next_pc) ==
    /\ sh_pc' = next_pc
    /\ bier_header' = DefaultHeader
    /\ received' = <<>>
    /\ packet' = <<>>
    /\ bier_next_hops' = <<>>
    /\ dup_idx' = 1
    /\ sent' = LastDatagram(sent, n_read)

\* Lines 139-150: process_bier on the header, then `continue` on Err; a
\* panic in process_bier ends the process.
Dispatch(hdr, pkt) ==
    \E r \in process_bier(bier_state, hdr.bitstring, hdr.bift_id) :
        IF r.tag = "Panic" THEN Drop("aborted")
        ELSE IF r.tag = "Err" THEN Drop("poll")
        ELSE /\ bier_header' = hdr
             /\ received' = pkt
             /\ packet' = pkt
             /\ dup_idx' = 1
             /\ sent' = LastDatagram(sent, n_read)
             /\ bier_next_hops' = r.val
             /\ sh_pc' = IF Len(r.val) = 0 THEN "poll" ELSE "dups"

\* Lines 94-122: a datagram on the local endpoint.  from_slice's Err is
\* unwrapped; from_recv_info's Err is logged and the datagram dropped.
RecvUnix ==
    /\ sh_pc = "poll"
    /\ n_read < MaxDatagrams
    /\ n_read' = n_read + 1
    /\ \E buffer \in UnixDatagrams :
        LET recv_info == CommunicationInfo_from_slice(buffer) IN
        IF recv_info.tag # "Ok" THEN Drop("aborted")
        ELSE LET hdr == from_recv_info(recv_info.val) IN
             IF hdr.tag # "Ok" THEN Drop("poll")
             ELSE LET output_buff ==
                          BierHeader_to_slice(hdr.val,
                              [i \in 1..header_length(hdr.val) |-> 0]).slice
                          \o recv_info.val.payload
                  IN  Dispatch(hdr.val, output_buff)
    /\ UNCHANGED <<bier_state, default_unix_path, engine_vars, codec_vars, config_vars, net>>

\* Lines 123-134: a datagram on the raw endpoint.  from_slice's Err meets
\* .expect(): the process ends.
RecvIp ==
    /\ sh_pc = "poll"
    /\ n_read < MaxDatagrams
    /\ n_read' = n_read + 1
    /\ \E buffer \in IpDatagrams :
        LET hdr == BierHeader_from_slice(buffer) IN
        IF hdr.tag # "Ok" THEN Drop("aborted")
        ELSE Dispatch(hdr.val, buffer)
    /\ UNCHANGED <<bier_state, default_unix_path, engine_vars, codec_vars, config_vars, net>>

\* Variants of the three definitions below, each departing from main.rs in
\* one point: the list walked from its end, a failed send leaving the loop,
\* the local endpoint given the packet with its header.
CurrentDupReversed(list, i) == list[Len(list) - i + 1]
AfterSendBreak(ok, i, n) == IF ok THEN i + 1 ELSE n + 1
WholePacket(pkt, hdr) == pkt

\* Line 153: `for (bitstring, nxt_hop) in bier_next_hops`, the pair of the
\* i-th iteration.
CurrentDup(list, i) == list[i]

\* Lines 166-172 and 179-188: after send_to, Ok or Err (`continue`), the loop
\* goes to the next pair of the n.
AfterSend(ok, i, n) == i + 1

\* Line 176: the payload handed to the local endpoint.
LocalPayload(pkt, hdr) == Slice(pkt, header_length(hdr), Len(pkt))

\* Lines 153-191: one iteration of the for loop; send_to succeeds or fails.
Duplicate ==
    /\ sh_pc = "dups"
    /\ LET d == CurrentDup(bier_next_hops, dup_idx)
           bitstring == d[1]
           nxt_hop == d[2]
           upd == update_header_from_self(bitstring, packet)
           n == Len(bier_next_hops)
       IN  IF upd.res.tag = "Panic"
           THEN /\ sh_pc' = "aborted"
                /\ UNCHANGED <<packet, sent, dup_idx>>
           ELSE IF upd.res.tag = "Err"
           THEN /\ dup_idx' = dup_idx + 1
                /\ sh_pc' = IF dup_idx' > n THEN "poll" ELSE "dups"
                /\ UNCHANGED <<packet, sent>>
           ELSE /\ packet' = upd.header
                /\ \E ok \in BOOLEAN :
                    /\ IF nxt_hop # None
                       THEN sent' = Append(sent,
                                [dgram |-> n_read, dup |-> dup_idx,
                                 sock |-> "bier_ip_sock",
                                 to_ip |-> nxt_hop, to_unix |-> None,
                                 data |-> packet', ok |-> ok])
                       ELSE IF default_unix_path # None
                       THEN sent' = Append(sent,
                                [dgram |-> n_read, dup |-> dup_idx,
                                 sock |-> "bier_unix_sock",
                                 to_ip |-> None, to_unix |-> default_unix_path,
                                 data |-> LocalPayload(packet', bier_header), ok |-> ok])
                       ELSE sent' = sent
                    /\ dup_idx' = AfterSend(ok, dup_idx, n)
                /\ sh_pc' = IF dup_idx' > n THEN "poll" ELSE "dups"
    /\ UNCHANGED <<bier_state, default_unix_path, bier_header, received,
                   bier_next_hops, n_read, engine_vars, codec_vars,
                   config_vars, net>>

NextShell == RecvUnix \/ RecvIp \/ Duplicate

SpecShell == InitShell /\ [][NextShell]_vars

-----------------------------------------------------------------------------
(* Properties of process_bier (checked under SpecEngine).                  *)

TheBift == bier_state.bifts[arg_bift_id]
Returned == pb.pc = "done"
ReturnedOk == pb.pc = "done" /\ pb.ret.tag = "Ok"

\* Every F-BM of BIFT t has w words.
FbmWidth(t, w) ==
    \A i \in 1..Len(t.entries) : \A j \in 1..Len(t.entries[i].paths) :
        Len(t.entries[i].paths[j].bitstring) = w

\* The bitstrings of the pairs of `o` partition the bits of b.
Partition(b, o) ==
    /\ \A k \in BitsOf(b) : Cardinality({ j \in 1..Len(o) : k \in BitsOf(o[j][1]) }) = 1
    /\ \A j \in 1..Len(o) : BitsOf(o[j][1]) \subseteq BitsOf(b)

\* C1: whenever process_bier returns Ok on a BIER BIFT and a bitstring B of
\* one or several words, the returned destination bitstrings partition B:
\* each bit of B is in exactly one of them, and none of them has a bit that
\* is not in B.
C1_Partition == ReturnedOk => Partition(arg_bitstring, pb.ret.val)

\* The partition holds when every F-BM has the word count of the input.
C1_EqualWidths ==
    (ReturnedOk /\ FbmWidth(TheBift, Len(arg_bitstring)))
    => Partition(arg_bitstring, pb.ret.val)

\* entries[i].bit == i+1
WellIndexed(t) == \A i \in 1..Len(t.entries) : t.entries[i].bit = i

\* The only F-BMs holding bit t.bfr_id are those of the local entry, which
\* hold that bit alone.
OwnBitLocalOnly(t) ==
    /\ t.bfr_id \in 1..Len(t.entries)
    /\ Len(t.entries[t.bfr_id].paths) > 0
    /\ \A i \in 1..Len(t.entries) : \A j \in 1..Len(t.entries[i].paths) :
          LET f == BitsOf(t.entries[i].paths[j].bitstring) IN
          IF i = t.bfr_id THEN f = {t.bfr_id} ELSE t.bfr_id \notin f

LocalPairs(o) == { j \in 1..Len(o) : o[j][2] = None }

LocalDelivery(t, b, o) ==
    IF t.bfr_id \in BitsOf(b)
    THEN /\ Cardinality(LocalPairs(o)) = 1
         /\ \A j \in LocalPairs(o) : BitsOf(o[j][1]) = {t.bfr_id}
    ELSE LocalPairs(o) = {}

\* C2: on a BIER BIFT T with entries[i].bit == i+1 whose only F-BM holding
\* bit T.bfr_id is the local entry's F-BM, equal to that bit, and a bitstring
\* B of one word or more, an Ok result has exactly one pair with next_hop =
\* None, of bitstring {T.bfr_id}, when bit T.bfr_id is set in B, and no such
\* pair when it is not.  (Stated for F-BMs of the width of B, where no word
\* is lost by update.)
C2_LocalDelivery ==
    (ReturnedOk /\ WellIndexed(TheBift) /\ OwnBitLocalOnly(TheBift)
        /\ FbmWidth(TheBift, Len(arg_bitstring)))
    => LocalDelivery(TheBift, arg_bitstring, pb.ret.val)

\* The same on bitstrings of one word.
C2_OneWord ==
    (ReturnedOk /\ Len(arg_bitstring) = 1 /\ WellIndexed(TheBift)
        /\ OwnBitLocalOnly(TheBift) /\ FbmWidth(TheBift, 1))
    => LocalDelivery(TheBift, arg_bitstring, pb.ret.val)

\* The F-BM of every path through next hop h holds every destination bit
\* whose entry lists h.
Aggregated(t) ==
    \A i \in 1..Len(t.entries) : \A j \in 1..Len(t.entries[i].paths) :
        \A d \in 1..Len(t.entries) :
            (\E q \in 1..Len(t.entries[d].paths) :
                t.entries[d].paths[q].next_hop = t.entries[i].paths[j].next_hop)
            => d \in BitsOf(t.entries[i].paths[j].bitstring)

OneCopyPerNextHop(o) ==
    \A j, k \in 1..Len(o) : (j # k /\ o[j][2] # None) => o[j][2] # o[k][2]

\* C3: when the F-BMs are aggregated per next hop, no two pairs of an Ok
\* result carry the same Some(next_hop).  (Stated for well-numbered entries
\* and F-BMs of the width of the input.)
C3_OneCopyPerNextHop ==
    (ReturnedOk /\ ~OneCopyPerNextHop(pb.ret.val))
    => ~(WellIndexed(TheBift) /\ FbmWidth(TheBift, Len(arg_bitstring))
            /\ Aggregated(TheBift))

\* The same on bitstrings of one word.
C3_OneWord ==
    (ReturnedOk /\ Len(arg_bitstring) = 1 /\ ~OneCopyPerNextHop(pb.ret.val))
    => ~(WellIndexed(TheBift) /\ FbmWidth(TheBift, 1) /\ Aggregated(TheBift))

\* C4: a call with a BIFT-ID that names no BIFT (0, or more than the number
\* of BIFTs) returns Err(BiftId), with no duplication, and does not abort.
C4_UnknownBiftId ==
    (Returned /\ (arg_bift_id = 0 \/ arg_bift_id > Len(bier_state.bifts)))
    => pb.ret = Err("BiftId")

\* The bit the scan is at: position bfr_idx % 64 of the word it reads, word
\* len-1-j holding the bits 64j+1 .. 64j+64.
ScanBit == WordBits * pb.idx_u64_word + (pb.bfr_idx % WordBits) + 1

\* The scan is at a set bit for which the BIFT has no entry, or an entry
\* with no path.
AtBitWithoutEntry ==
    /\ pb.pc = "while"
    /\ (pb.bfr_idx % WordBits) \in pb.bitstring_word
    /\ \/ ScanBit > Len(TheBift.entries)
       \/ /\ TheBift.entries[ScanBit].bit = ScanBit
          /\ TheBift.entries[ScanBit].paths = <<>>

\* C5: once the scan has reached a bit k that is set in the working set and
\* for which the BIFT has no entry, or an entry with no path, the call
\* returns Err(NoEntry), and with it none of the duplications computed
\* before.
C5_NoEntry ==
    [](AtBitWithoutEntry => [](Returned => pb.ret = Err("NoEntry")))

\* The same on bitstrings of one word.
C5_OneWord ==
    []((AtBitWithoutEntry /\ Len(arg_bitstring) = 1)
          => [](Returned => pb.ret = Err("NoEntry")))

\* C6: a call on a BIFT of type BIER-TE returns an error value; it does not
\* abort.
C6_BierTeRejected ==
    (Returned /\ arg_bift_id \in 1..Len(bier_state.bifts)
        /\ TheBift.bift_id = arg_bift_id /\ TheBift.bift_type = "BierTe")
    => pb.ret.tag = "Err"

-----------------------------------------------------------------------------
(* Properties of the event loop (checked under SpecShell).                 *)

\* C7: whatever datagrams arrive on the two endpoints, malformed ones
\* included, the event loop never exits or aborts.
C7_NeverAborts == sh_pc # "aborted"

\* The send attempts made for the j-th pair of the current datagram.
Current == { k \in 1..Len(sent) : sent[k].dgram = n_read }
Attempts(j) == { k \in Current : sent[k].dup = j }

\* The j-th pair has somewhere to go: a next hop, or the default local
\* endpoint.
HasEndpoint(j) == bier_next_hops[j][2] # None \/ default_unix_path # None

InOrder ==
    /\ \A k \in 1..(Len(sent) - 1) :
          \/ sent[k].dgram < sent[k + 1].dgram
          \/ sent[k].dgram = sent[k + 1].dgram /\ sent[k].dup < sent[k + 1].dup
    /\ \A k \in Current :
          LET d == bier_next_hops[sent[k].dup] IN
          /\ sent[k].to_ip = d[2]
          /\ d[2] # None =>
                SubSeq(sent[k].data, BIER_HEADER_WITHOUT_BITSTRING_LENGTH + 1,
                       BIER_HEADER_WITHOUT_BITSTRING_LENGTH + 8 * Len(d[1]))
                = BitstringBytes(d[1])

\* C9: the duplications of a datagram are emitted in the order of the list
\* process_bier returned, and the next datagram is read only after the loop
\* has gone through the whole list.
C9_Order ==
    [][ /\ n_read' # n_read => dup_idx = Len(bier_next_hops) + 1
        /\ InOrder' ]_vars

\* Two datagrams of three emissions each.
C9_Witness ==
    /\ sh_pc = "poll"
    /\ Cardinality({ k \in 1..Len(sent) : sent[k].dgram = 1 }) = 3
    /\ Cardinality({ k \in 1..Len(sent) : sent[k].dgram = 2 }) = 3

\* C10: for a pair with next_hop = None nothing goes to the raw endpoint;
\* the bytes of the packet after the header (12 + 8W bytes, W the header's
\* word count) go to the default local endpoint when there is one, and
\* nothing is sent when there is none.  For a pair with Some(next_hop) the
\* whole packet goes once to that next hop on the raw endpoint.
C10_Transmit ==
    LET off == 12 + 8 * Len(bier_header.bitstring) IN
    /\ \A k \in Current :
          LET e == sent[k]
              d == bier_next_hops[e.dup]
          IN  IF d[2] = None
              THEN /\ e.sock = "bier_unix_sock"
                   /\ default_unix_path # None
                   /\ e.to_unix = default_unix_path
                   /\ e.to_ip = None
                   /\ e.data = SubSeq(received, off + 1, Len(received))
              ELSE /\ e.sock = "bier_ip_sock"
                   /\ e.to_ip = d[2]
                   /\ e.to_unix = None
                   /\ Len(e.data) = Len(received)
                   /\ SubSeq(e.data, 1, 12) = SubSeq(received, 1, 12)
                   /\ SubSeq(e.data, 13, 12 + 8 * Len(d[1])) = BitstringBytes(d[1])
                   /\ SubSeq(e.data, off + 1, Len(e.data))
                        = SubSeq(received, off + 1, Len(received))
    /\ \A j \in 1..Len(bier_next_hops) :
          /\ Cardinality(Attempts(j)) <= 1
          /\ (j < dup_idx /\ HasEndpoint(j)) => Cardinality(Attempts(j)) = 1
          /\ ~HasEndpoint(j) => Attempts(j) = {}

\* A datagram delivered locally and forwarded to a neighbour.
C10_Witness ==
    /\ \E k \in Current : sent[k].sock = "bier_unix_sock" /\ Len(sent[k].data) > 0
    /\ \E k \in Current : sent[k].sock = "bier_ip_sock"


-----------------------------------------------------------------------------
(* The codecs applied on their own: header, envelope and bitstring         *)
(* conversions on values drawn from bounded sets, one call after another.  *)

\* Calls recorded in one behaviour.
MaxCodecSteps == 2
\* Words of the bitstrings the conversions are given.
MaxCodecWords == 2
\* The BSL nibbles tried are 0..MaxBsl, and 7 and 15.
MaxBsl == 3

\* TryFrom<&[u8]> for Bitstring on a slice at any address.  bier.rs:188-189
\* casts the byte pointer to *mut u64 and builds a &[u64] over it: when the
\* slice does not start on an 8-byte boundary that is undefined behaviour.
\* The build either reads the words all the same, or stops the process
\* (the precondition check of slice::from_raw_parts in a build with debug
\* assertions, a bus error on a target without unaligned loads): `faults`
\* is which of the two the build does.
Bitstring_try_from_ptr(value, aligned, faults) ==
    IF is_valid(value) /\ ~aligned /\ faults THEN Panic("misaligned pointer")
    ELSE Bitstring_try_from(value)

\* From<&Bitstring> for Vec<u8>: flat_map of to_be_bytes over the words.
Vec_u8_from(value) == Flatten([i \in 1..Len(value) |-> to_be_bytes(value[i])])

\* BierHeader::from_recv_info on an envelope whose bitstring is at any address.
from_recv_info_ptr(recv_info, aligned, faults) ==
    IF Bitstring_try_from_ptr(recv_info.bitstring, aligned, faults).tag = "Panic"
    THEN Bitstring_try_from_ptr(recv_info.bitstring, aligned, faults)
    ELSE from_recv_info(recv_info)

\* CommunicationInfo::from_slice on any slice.  api.rs:16-22 read bytes 0..8
\* through the raw pointer before the length is looked at: on a slice of
\* fewer than 8 bytes the reads leave the slice.  They give whatever follows
\* the slice in memory (and then the length test fails whatever was read) or
\* fault when nothing readable follows it: `faults` is which of the two.
CommunicationInfo_from_slice_ptr(slice, faults) ==
    IF Len(slice) < 8 /\ faults THEN Panic("read past the end of the slice")
    ELSE CommunicationInfo_from_slice(slice)

\* CommunicationInfo::to_slice into a buffer: the outcome and the buffer.
CommunicationInfo_to_slice_buf(self, slice) ==
    LET len == 4 + 2 + 2 + Len(self.bitstring) + Len(self.payload) IN
    IF Len(slice) < len
    THEN [res |-> Err("SliceWrongLength"), slice |-> slice]
    ELSE [res |-> Ok(len),
          slice |-> CommunicationInfo_to_slice(self) \o Slice(slice, len, Len(slice))]

\* A value of a codec call: its type and, in the field of that type, the
\* value.  The record of a call: the function, the tag and error of its
\* outcome, the length it returned, and its other arguments.
NoEnvelope == [bift_id |-> 0, proto |-> 0, bitstring |-> <<>>, payload |-> <<>>]
NoVal ==
    [ty |-> "none", bytes |-> <<>>, header |-> DefaultHeader,
     envelope |-> NoEnvelope, bitstring |-> <<>>]
Bytes(b) == [NoVal EXCEPT !.ty = "bytes", !.bytes = b]
Header(h) == [NoVal EXCEPT !.ty = "header", !.header = h]
Envelope_(e) == [NoVal EXCEPT !.ty = "envelope", !.envelope = e]
Bitstring(b) == [NoVal EXCEPT !.ty = "bitstring", !.bitstring = b]
Str(b) == [NoVal EXCEPT !.ty = "str", !.bytes = b]
Call(name, res, len, buf, aligned, other, bitop) ==
    [name |-> name, tag |-> res.tag, err |-> res.err, len |-> len, buf |-> buf,
     aligned |-> aligned, other |-> other, bitop |-> bitop]

\* A buffer of n bytes, each 42.
Filled(n) == [i \in 1..n |-> 42]

\* The header of header.rs's tests (214-226) and a header of two words with
\* every bit of the first 12 bytes set, followed by two bytes.
DummySlice ==
    << 0, 0, 67, 7, 81, 16, 0, 3, 241, 4, 0, 17, 0, 0, 0, 0, 0, 0, 255, 255 >>
FullSlice ==
    << 255, 255, 255, 255, 255, 47, 255, 255, 255, 255, 255, 255,
       128, 0, 0, 0, 0, 0, 0, 1, 0, 0, 0, 0, 0, 0, 255, 255, 170, 187 >>

\* Buffers given to BierHeader::from_slice: the two above with each BSL
\* nibble, cut at each length.
BslNibbles == (0..MaxBsl) \cup {7, 15}
CutLengths == {0, 12, 19, 20, 27, 28, 30}
HeaderBuffers ==
    { Slice([b EXCEPT ![6] = 16 * n + (b[6] % 16)], 0, c) :
        <<b, n, c>> \in { x \in {DummySlice, FullSlice} \X BslNibbles \X CutLengths :
                            x[3] <= Len(x[1]) } }

\* Bitstrings: up to MaxCodecWords words over a few bit positions, and one of
\* each larger valid width.
CodecBits == {0, 8, 63}
WordsOf(n) == [1..n -> SUBSET CodecBits]
WideBitstring(n) == [i \in 1..n |-> IF i = 1 THEN {63} ELSE IF i = n THEN {0, 7} ELSE {}]
CodecBitstrings ==
    UNION { WordsOf(n) : n \in 1..MaxCodecWords }
    \cup { WideBitstring(n) : n \in {4, 8, 16, 32} }

\* Byte slices given to Bitstring::try_from: the bytes of a few bitstrings,
\* whole and with bytes cut or added.
CodecSlices ==
    { Slice(Vec_u8_from(b) \o <<1, 2>>, 0, Len(b) * 8 + d) :
        <<b, d>> \in { w \in CodecBitstrings : w[1] \in {{}, {63}, {0, 63}} } \X {-8, -1, 0, 1} }

\* Envelopes: CommunicationInfo values with a bitstring of each valid length
\* and of some others.
CodecProtos == {36, 63, 64, 255, 320}
CodecEnvelopes ==
    { [bift_id |-> id, proto |-> pr, bitstring |-> bsb, payload |-> pl] :
        <<id, pr, bsb, pl>> \in
            ({1, 1048575} \X CodecProtos
               \X { s \in CodecSlices : Len(s) \in {0, 7, 8, 16, 24} \/ s[1] = 128 }
               \X {<<>>, <<1, 2, 5>>}) }

\* Buffers given to CommunicationInfo::from_slice: envelopes written out, cut
\* at each length.
EnvelopeBuffers ==
    { Slice(CommunicationInfo_to_slice(e), 0, c) :
        <<e, c>> \in { x \in { y \in CodecEnvelopes : y.proto = 36 /\ Len(y.bitstring) <= 16 }
                                \X {0, 3, 7, 8, 12, 15, 16, 19, 24, 27} :
                         x[2] <= 8 + Len(x[1].bitstring) + Len(x[1].payload) } }

\* Headers given to BierHeader::to_slice: the Default header, the headers
\* from_recv_info builds and the headers from_slice parses.  Bitstring's
\* Default is not in bier.rs: it is the empty vector (what a derive gives) or
\* the one zero word the test at header.rs:265-274 expects.
DefaultHeaders == { DefaultHeader, [DefaultHeader EXCEPT !.bitstring = <<{}>>] }
OkValues(rs) == { r.val : r \in { x \in rs : x.tag = "Ok" } }
CodecHeaders ==
    DefaultHeaders
    \cup OkValues({ from_recv_info(e) : e \in CodecEnvelopes })
    \cup OkValues({ BierHeader_from_slice(b) : b \in HeaderBuffers })

\* The binary literal of n characters whose bits (1 = the rightmost
\* character) are those of `bits`.
Literal(bits, n) == [j \in 1..n |-> IF (n + 1 - j) \in bits THEN Char1 ELSE Char0]

\* Strings given to Bitstring::from_str: literals of up to two words, whole
\* words or not, the empty string, a signed literal and a string with a
\* character that is no digit.
LiteralLengths == {1, 5, 64, 65, 128}
CodecStrings ==
    { Literal(S \cap 1..n, n) : S \in SUBSET {1, 2, 64, 65}, n \in LiteralLengths }
    \cup { <<>>, <<CharPlus, Char1>>, <<Char1, 120>> }

CodecInputs ==
    { Bytes(b) : b \in HeaderBuffers \cup EnvelopeBuffers \cup CodecSlices }
    \cup { Str(b) : b \in CodecStrings }
    \cup { Header(h) : h \in CodecHeaders }
    \cup { Envelope_(e) : e \in CodecEnvelopes }
    \cup { Bitstring(b) : b \in CodecBitstrings }

InitCodec ==
    /\ cd_hist \in { <<x>> : x \in CodecInputs }
    /\ cd_ops = <<>>
    /\ bier_state = StateOf(DummyBift)
    /\ arg_bitstring = <<>>
    /\ arg_bift_id = 0
    /\ pb = Frame0
    /\ default_unix_path = None
    /\ ShellIdle
    /\ ConfigIdle

\* The value in hand, and one more call recorded.
Cur == cd_hist[Len(cd_hist)]
CanCall(ty) == Len(cd_ops) < MaxCodecSteps /\ Cur.ty = ty
Record(call, val) ==
    /\ cd_ops' = Append(cd_ops, call)
    /\ cd_hist' = Append(cd_hist, val)
    /\ UNCHANGED <<bier_state, engine_vars, shell_vars, config_vars, net>>

\* BierHeader::from_slice
HeaderFromSlice ==
    /\ CanCall("bytes")
    /\ LET r == BierHeader_from_slice(Cur.bytes)
       IN  Record(Call("BierHeader::from_slice", r, 0, <<>>, TRUE, <<>>, ""),
                  IF r.tag = "Ok" THEN Header(r.val) ELSE NoVal)

\* BierHeader::to_slice into a buffer one byte short, exact, or 8 bytes longer.
HeaderToSlice ==
    /\ CanCall("header")
    /\ \E d \in {-1, 0, 8} :
         LET buf == Filled(header_length(Cur.header) + d)
             r == BierHeader_to_slice(Cur.header, buf)
         IN  Record(Call("BierHeader::to_slice", r.res, 0, buf, TRUE, <<>>, ""),
                    Bytes(r.slice))

\* BierHeader::from_recv_info
HeaderFromRecvInfo ==
    /\ CanCall("envelope")
    /\ \E aligned, faults \in BOOLEAN :
         LET r == from_recv_info_ptr(Cur.envelope, aligned, faults)
         IN  Record(Call("BierHeader::from_recv_info", r, 0, <<>>, aligned, <<>>, ""),
                    IF r.tag = "Ok" THEN Header(r.val) ELSE NoVal)

\* CommunicationInfo::from_slice, on buffers whose BIFT-ID is below 2^31
\* (first byte below 128), so that the u32 stays within TLC's integers.
EnvelopeFromSlice ==
    /\ CanCall("bytes")
    /\ Len(Cur.bytes) > 0 => Cur.bytes[1] < 128
    /\ \E faults \in BOOLEAN :
         LET r == CommunicationInfo_from_slice_ptr(Cur.bytes, faults)
         IN  Record(Call("CommunicationInfo::from_slice", r, 0, <<>>, TRUE, <<>>, ""),
                    IF r.tag = "Ok" THEN Envelope_(r.val) ELSE NoVal)

\* CommunicationInfo::to_slice into a buffer one byte short, exact, or longer.
EnvelopeToSlice ==
    /\ CanCall("envelope")
    /\ \E d \in {-1, 0, 3} :
         LET buf == Filled(8 + Len(Cur.envelope.bitstring) + Len(Cur.envelope.payload) + d)
             r == CommunicationInfo_to_slice_buf(Cur.envelope, buf)
         IN  Record(Call("CommunicationInfo::to_slice", r.res,
                         IF r.res.tag = "Ok" THEN r.res.val ELSE 0,
                         buf, TRUE, <<>>, ""),
                    Bytes(r.slice))

\* Bitstring::try_from(&[u8])
BitstringTryFrom ==
    /\ CanCall("bytes")
    /\ \E aligned, faults \in BOOLEAN :
         LET r == Bitstring_try_from_ptr(Cur.bytes, aligned, faults)
         IN  Record(Call("Bitstring::try_from", r, 0, <<>>, aligned, <<>>, ""),
                    IF r.tag = "Ok" THEN Bitstring(r.val) ELSE NoVal)

\* Vec<u8>::from(&Bitstring)
BitstringToBytes ==
    /\ CanCall("bitstring")
    /\ Record(Call("Vec<u8>::from", Ok(<<>>), 0, <<>>, TRUE, <<>>, ""),
              Bytes(Vec_u8_from(Cur.bitstring)))

\* Bitstring::update with another bitstring of one or two words.
UpdateOthers == { <<{}>>, <<{0, 8}>>, <<{63}, {8}>>, <<{0, 8, 63}, {0, 63}>> }
BitstringUpdate ==
    /\ CanCall("bitstring")
    /\ Len(Cur.bitstring) <= MaxCodecWords
    /\ \E other \in UpdateOthers : \E bitop \in BitstringOp :
         Record(Call("Bitstring::update", Ok(<<>>), 0, <<>>, TRUE, other, bitop),
                Bitstring(update(Cur.bitstring, other, bitop)))

\* Bitstring::from_str
BitstringFromStr ==
    /\ CanCall("str")
    /\ LET r == Bitstring_from_str(Cur.bytes)
       IN  Record(Call("Bitstring::from_str", r, 0, <<>>, TRUE, <<>>, ""),
                  IF r.tag = "Ok" THEN Bitstring(r.val) ELSE NoVal)

\* Bitstring::serialize
BitstringSerialize ==
    /\ CanCall("bitstring")
    /\ Len(Cur.bitstring) <= MaxCodecWords
    /\ Record(Call("Bitstring::serialize", Ok(<<>>), 0, <<>>, TRUE, <<>>, ""),
              Str(Bitstring_serialize(Cur.bitstring)))

\* A packet buffer of n bytes, each different from its neighbours.
PacketBuffer(n) == [i \in 1..n |-> (7 * i) % 256]

\* Bitstring::update_header_from_self on a packet buffer: shorter than the
\* 12-byte prefix, between 12 + W and 12 + 8 W, exact, or with a payload.
UpdateHeader ==
    /\ CanCall("bitstring")
    /\ Len(Cur.bitstring) \in 1..MaxCodecWords
    /\ \E n \in { 0, 11, BIER_HEADER_WITHOUT_BITSTRING_LENGTH + Len(Cur.bitstring) - 1,
                  BIER_HEADER_WITHOUT_BITSTRING_LENGTH + Len(Cur.bitstring),
                  BIER_HEADER_WITHOUT_BITSTRING_LENGTH + 8 * Len(Cur.bitstring) - 1,
                  BIER_HEADER_WITHOUT_BITSTRING_LENGTH + 8 * Len(Cur.bitstring),
                  BIER_HEADER_WITHOUT_BITSTRING_LENGTH + 8 * Len(Cur.bitstring) + 3 } :
         LET r == update_header_from_self(Cur.bitstring, PacketBuffer(n))
         IN  Record(Call("Bitstring::update_header_from_self", r.res, 0,
                         PacketBuffer(n), TRUE, Cur.bitstring, ""),
                    Bytes(r.header))

NextCodec ==
    \/ HeaderFromSlice \/ HeaderToSlice \/ HeaderFromRecvInfo
    \/ EnvelopeFromSlice \/ EnvelopeToSlice
    \/ BitstringTryFrom \/ BitstringToBytes \/ BitstringUpdate
    \/ UpdateHeader
    \/ BitstringFromStr \/ BitstringSerialize

SpecCodec == InitCodec /\ [][NextCodec]_vars

-----------------------------------------------------------------------------
(* Claims about the codecs.                                                *)

\* The calls of a function recorded so far, the argument and the value of
\* call k.
CallsOf(name) == { k \in 1..Len(cd_ops) : cd_ops[k].name = name }
In(k) == cd_hist[k]
Out(k) == cd_hist[k + 1]
Failed(k, e) == cd_ops[k].tag = "Err" /\ cd_ops[k].err = e
Succeeded(k) == cd_ops[k].tag = "Ok"

\* The bitstring bytes the BSL nibble of byte 5 implies: whole words of
\* 1 << (BSL + 5) bits.
ImpliedWords(b) == Pow2((b[6] \div 16) + 5) \div 64
TooShort(b) == Len(b) < 20 \/ Len(b) < 12 + 8 * ImpliedWords(b)

\* C11: BierHeader::from_slice returns the Header error for every buffer
\* shorter than 20 bytes and for every buffer shorter than 12 + 8 W bytes,
\* W the word count the BSL nibble of byte 5 implies.
C11_ShortBuffer ==
    \A k \in CallsOf("BierHeader::from_slice") :
        TooShort(In(k).bytes) => Failed(k, "Header")

\* A buffer of 20 bytes or more, shorter than its BSL asks for, was refused.
C11_Witness ==
    \E k \in CallsOf("BierHeader::from_slice") :
        /\ Len(In(k).bytes) >= 20
        /\ TooShort(In(k).bytes)
        /\ Failed(k, "Header")

\* C12: BierHeader::from_slice returns an error value (it neither aborts
\* nor returns a header) for every buffer of at least 20 bytes whose BSL
\* nibble is not in 1..6, whatever the buffer length.
C12_InvalidBsl ==
    \A k \in CallsOf("BierHeader::from_slice") :
        (Len(In(k).bytes) >= 20 /\ get_bsl(In(k).bytes) \notin 1..6)
            => cd_ops[k].tag = "Err"

\* Every field of the header fits its width on the wire.
FitsWire(h) ==
    /\ h.bift_id < 1048576 /\ h.tc < 8 /\ h.ttl < 256 /\ h.nibble < 16
    /\ h.ver < 16 /\ h.bsl < 16 /\ h.entropy < 1048576 /\ h.oam < 4
    /\ h.rsv < 4 /\ h.dscp < 64 /\ h.proto < 64 /\ h.bfr_id < 65536

\* to_slice of a header from_slice returned writes the bytes it was parsed from.
BytesRoundTrip ==
    \A k \in CallsOf("BierHeader::from_slice") :
        (Succeeded(k) /\ k + 1 \in CallsOf("BierHeader::to_slice") /\ Succeeded(k + 1))
            => Slice(Out(k + 1).bytes, 0, header_length(Out(k).header))
                 = Slice(In(k).bytes, 0, header_length(Out(k).header))

\* from_slice of what to_slice wrote returns the header written.
FieldsRoundTrip(k) ==
    (Succeeded(k) /\ FitsWire(In(k).header) /\ k + 1 \in CallsOf("BierHeader::from_slice"))
        => (Succeeded(k + 1) /\ Out(k + 1).header = In(k).header)

\* C13: for every buffer from_slice accepts, to_slice of the parsed header
\* writes the first header_length() bytes of the buffer; and for every header
\* whose fields fit their wire widths, from_slice of what to_slice wrote has
\* the same value in every field.
C13_HeaderRoundTrip ==
    /\ BytesRoundTrip
    /\ \A k \in CallsOf("BierHeader::to_slice") : FieldsRoundTrip(k)

\* The round trip of the headers whose BSL is in 1..6 and is the width of
\* their bitstring.
C13_ConsistentBsl ==
    /\ BytesRoundTrip
    /\ \A k \in CallsOf("BierHeader::to_slice") :
         (In(k).header.bsl \in 1..6
            /\ Pow2(In(k).header.bsl + 5) = 64 * Len(In(k).header.bitstring))
           => FieldsRoundTrip(k)

\* The header with every field at the top of its width, which from_slice
\* parsed, was written by to_slice and parsed back.
C13_Witness ==
    /\ Len(cd_ops) = 2
    /\ Succeeded(1) /\ Succeeded(2)
    /\ cd_ops[1].name = "BierHeader::to_slice"
    /\ cd_ops[2].name = "BierHeader::from_slice"
    /\ Ok(In(1).header) = BierHeader_from_slice(FullSlice)
    /\ Out(2).header = In(1).header

\* Bit i of byte j (from 1) of the bytes is bit 8 * (7 - (j-1) mod 8) + i of
\* word (j-1) / 8 of the bitstring.
SameBits(bytes, bs) ==
    /\ Len(bytes) = 8 * Len(bs)
    /\ \A j \in 1..Len(bytes) : \A i \in 0..7 :
         BitSet(bytes[j], i) <=> (8 * (7 - ((j - 1) % 8)) + i) \in bs[((j - 1) \div 8) + 1]

\* The header from_recv_info is to build from the envelope e, proto aside.
BuiltFrom(h, e) ==
    /\ header_length(h) = 12 + Len(e.bitstring)
    /\ Pow2(h.bsl + 5) = 8 * Len(e.bitstring)
    /\ h.bift_id = e.bift_id
    /\ SameBits(e.bitstring, h.bitstring)
    /\ h.tc = 0 /\ h.s = FALSE /\ h.ttl = 0 /\ h.nibble = 0 /\ h.ver = 0
    /\ h.entropy = 0 /\ h.oam = 0 /\ h.dscp = 0 /\ h.rsv = 0 /\ h.bfr_id = 0

ValidLengths == {8, 16, 32, 64, 128, 256}

\* C14: for every envelope whose bitstring length n is in {8, 16, 32, 64, 128,
\* 256}, from_recv_info returns a header with header_length() = 12 + n, the
\* BSL with 1 << (BSL + 5) = 8 n, bift_id and bitstring copied from the
\* envelope, and every other field except proto zero.
C14_FromRecvInfo ==
    \A k \in CallsOf("BierHeader::from_recv_info") :
        Len(In(k).envelope.bitstring) \in ValidLengths
            => (Succeeded(k) /\ BuiltFrom(Out(k).header, In(k).envelope))

\* The same for the envelopes whose bitstring starts on an 8-byte boundary.
C14_Aligned ==
    \A k \in CallsOf("BierHeader::from_recv_info") :
        (Len(In(k).envelope.bitstring) \in ValidLengths /\ cd_ops[k].aligned)
            => (Succeeded(k) /\ BuiltFrom(Out(k).header, In(k).envelope))

\* Every valid length was given, on an aligned bitstring.
C14_AllWidths ==
    \E k \in CallsOf("BierHeader::from_recv_info") :
        /\ cd_ops[k].aligned /\ Succeeded(k)
        /\ Len(In(k).envelope.bitstring) = 256 /\ Out(k).header.bsl = 6

\* C15: the header from_recv_info builds carries the low 6 bits of the
\* envelope's 16-bit proto (header.proto = p mod 64), so that to_slice leaves
\* the DSCP, Rsv and OAM bits of bytes 8..9 at zero.
C15_ProtoSixBits ==
    \A k \in CallsOf("BierHeader::from_recv_info") :
        Succeeded(k) =>
            /\ Out(k).header.proto = In(k).envelope.proto % 64
            /\ (k + 1 \in CallsOf("BierHeader::to_slice") /\ Succeeded(k + 1))
                 => (Out(k + 1).bytes[9] = 0 /\ Out(k + 1).bytes[10] < 64)

\* What CommunicationInfo::from_slice is to do with the buffer b at call k.
EnvelopeParsed(k, b) ==
    IF Len(b) < 8 THEN Failed(k, "SliceWrongLength")
    ELSE LET n == b[7] * 256 + b[8] IN
         IF Len(b) < 8 + n THEN Failed(k, "SliceWrongLength")
         ELSE /\ Succeeded(k)
              /\ Out(k).envelope.bift_id
                   = b[1] * 16777216 + b[2] * 65536 + b[3] * 256 + b[4]
              /\ Out(k).envelope.proto = b[5] * 256 + b[6]
              /\ Out(k).envelope.bitstring = [i \in 1..n |-> b[8 + i]]
              /\ Out(k).envelope.payload = [i \in 1..(Len(b) - 8 - n) |-> b[8 + n + i]]

\* C16: CommunicationInfo::from_slice returns SliceWrongLength for every
\* buffer shorter than 8 + bitstring_length, the lengths 0..7 included,
\* without reading past the end of the buffer; for a longer buffer it returns
\* bift_id = bytes 0..4, proto = bytes 4..6, bitstring = the next
\* bitstring_length bytes and payload = the remainder.
C16_EnvelopeFromSlice ==
    \A k \in CallsOf("CommunicationInfo::from_slice") : EnvelopeParsed(k, In(k).bytes)

\* The same for the buffers that hold the 8-byte prefix.
C16_WithPrefix ==
    \A k \in CallsOf("CommunicationInfo::from_slice") :
        Len(In(k).bytes) >= 8 => EnvelopeParsed(k, In(k).bytes)

\* A buffer with prefix, bitstring and payload was parsed, and one shorter
\* than its bitstring length asks was refused.
C16_Witness ==
    \E k \in CallsOf("CommunicationInfo::from_slice") :
        \/ Succeeded(k) /\ Len(Out(k).envelope.bitstring) = 16
                        /\ Len(Out(k).envelope.payload) = 3
        \/ Len(In(k).bytes) >= 8 /\ Failed(k, "SliceWrongLength")

\* The envelope e as the first bytes of b, the rest of b as in the buffer buf.
EnvelopeWritten(e, b, buf) ==
    LET n == Len(e.bitstring)
        m == Len(e.payload)
    IN  /\ Len(b) = Len(buf)
        /\ e.bift_id = b[1] * 16777216 + b[2] * 65536 + b[3] * 256 + b[4]
        /\ e.proto = b[5] * 256 + b[6]
        /\ n = b[7] * 256 + b[8]
        /\ \A i \in 1..n : b[8 + i] = e.bitstring[i]
        /\ \A i \in 1..m : b[8 + n + i] = e.payload[i]
        /\ \A i \in (8 + n + m + 1)..Len(b) : b[i] = buf[i]

EnvelopeLength(e) == 8 + Len(e.bitstring) + Len(e.payload)

\* C17: for every envelope with a bitstring shorter than 65536 bytes and every
\* buffer of at least 8 + |bitstring| + |payload| bytes, to_slice returns
\* exactly that length and from_slice on that many bytes yields the same
\* bift_id, proto, bitstring and payload; to_slice on a shorter buffer returns
\* SliceWrongLength and writes nothing.
C17_EnvelopeRoundTrip ==
    \A k \in CallsOf("CommunicationInfo::to_slice") :
        LET e == In(k).envelope
            buf == cd_ops[k].buf
        IN  IF Len(buf) < EnvelopeLength(e)
            THEN Failed(k, "SliceWrongLength") /\ Out(k).bytes = buf
            ELSE /\ Succeeded(k)
                 /\ cd_ops[k].len = EnvelopeLength(e)
                 /\ EnvelopeWritten(e, Out(k).bytes, buf)
                 /\ (Len(buf) = EnvelopeLength(e)
                       /\ k + 1 \in CallsOf("CommunicationInfo::from_slice"))
                      => (Succeeded(k + 1) /\ Out(k + 1).envelope = e)

\* An envelope with bitstring and payload was written into a buffer of its
\* length and parsed back.
C17_Witness ==
    /\ Len(cd_ops) = 2
    /\ cd_ops[1].name = "CommunicationInfo::to_slice"
    /\ cd_ops[2].name = "CommunicationInfo::from_slice"
    /\ Succeeded(1) /\ Succeeded(2)
    /\ Len(In(1).envelope.bitstring) = 16
    /\ Len(In(1).envelope.payload) = 3
    /\ In(1).envelope.proto = 320
    /\ Out(2).envelope = In(1).envelope

\* The round trip that starts with Vec<u8>::from at call k, and the one that
\* starts with Bitstring::try_from at call k.
ToBytesAndBack(k) ==
    /\ SameBits(Out(k).bytes, In(k).bitstring)
    /\ (8 * Len(In(k).bitstring) \in ValidLengths /\ k + 1 \in CallsOf("Bitstring::try_from"))
         => (Succeeded(k + 1) /\ Out(k + 1).bitstring = In(k).bitstring)
FromBytesAndBack(k) ==
    Len(In(k).bytes) \in ValidLengths
        => /\ Succeeded(k)
           /\ SameBits(In(k).bytes, Out(k).bitstring)
           /\ k + 1 \in CallsOf("Vec<u8>::from") => Out(k + 1).bytes = In(k).bytes

\* C18: from_bytes(to_bytes(b)) = b for every bitstring b of valid width and
\* to_bytes(from_bytes(s)) = s for every byte slice s of valid length, each
\* 8-byte group being one big-endian word, word 0 first.
C18_BytesRoundTrip ==
    /\ \A k \in CallsOf("Vec<u8>::from") : ToBytesAndBack(k)
    /\ \A k \in CallsOf("Bitstring::try_from") : FromBytesAndBack(k)

\* The same for the byte slices that start on an 8-byte boundary.
C18_Aligned ==
    /\ \A k \in CallsOf("Vec<u8>::from") :
         (k + 1 \in CallsOf("Bitstring::try_from") => cd_ops[k + 1].aligned)
            => ToBytesAndBack(k)
    /\ \A k \in CallsOf("Bitstring::try_from") : cd_ops[k].aligned => FromBytesAndBack(k)

\* Both round trips were made on two words.
C18_BothWays ==
    /\ Len(cd_ops) = 2 /\ Succeeded(1) /\ Succeeded(2)
    /\ cd_ops[1].name = "Bitstring::try_from" /\ cd_ops[2].name = "Vec<u8>::from"
    /\ Len(In(1).bytes) = 16 /\ Out(2).bytes = In(1).bytes

\* try_from at call k succeeds on a valid length and fails with
\* BitstringLength on any other.
ByLength(k) ==
    IF Len(In(k).bytes) \in ValidLengths THEN Succeeded(k)
    ELSE Failed(k, "BitstringLength")

\* C19: Bitstring::try_from(&[u8]) succeeds exactly when the length of the
\* slice is one of 8, 16, 32, 64, 128, 256, and returns the BitstringLength
\* error for every other length, 0 included.
C19_ValidLengths ==
    \A k \in CallsOf("Bitstring::try_from") : ByLength(k)

\* The same for the slices that start on an 8-byte boundary.
C19_Aligned ==
    \A k \in CallsOf("Bitstring::try_from") : cd_ops[k].aligned => ByLength(k)

\* A slice of 256 bytes was converted and one of 255 refused.
C19_Lengths ==
    \E k \in CallsOf("Bitstring::try_from") :
        \/ Len(In(k).bytes) = 256 /\ Succeeded(k)
        \/ Len(In(k).bytes) = 255 /\ Failed(k, "BitstringLength")

\* C20: Bitstring::update(a, b, op) replaces a by the word-wise result over
\* the first min(|a|, |b|) words, paired by index: a[i] & b[i] for AND and
\* a[i] & ~b[i] for AND_NOT; when |a| = |b| the word count of a is unchanged.
C20_Update ==
    \A k \in CallsOf("Bitstring::update") :
        LET a == In(k).bitstring
            b == cd_ops[k].other
            r == Out(k).bitstring
        IN  /\ Len(r) = (IF Len(a) <= Len(b) THEN Len(a) ELSE Len(b))
            /\ \A i \in 1..Len(r) : \A q \in 0..(WordBits - 1) :
                 q \in r[i] <=> (q \in a[i] /\ IF cd_ops[k].bitop = "And"
                                              THEN q \in b[i] ELSE q \notin b[i])
            /\ Len(a) = Len(b) => Len(r) = Len(a)

\* Two words were updated by one word with AND_NOT, and bits went and stayed.
C20_Witness ==
    \E k \in CallsOf("Bitstring::update") :
        /\ Len(In(k).bitstring) = 2 /\ Len(cd_ops[k].other) = 1
        /\ cd_ops[k].bitop = "AndNot"
        /\ Out(k).bitstring # <<{}>>
        /\ Out(k).bitstring[1] # In(k).bitstring[1]

\* C21: update_header_from_self on a bitstring of W words returns the length
\* error for every packet buffer shorter than 12 + 8 W bytes (the lengths
\* 12 + W .. 12 + 8 W - 1 included), leaves the buffer unchanged and does
\* not abort; it succeeds for every buffer of at least 12 + 8 W bytes.
C21_ShortPacket ==
    \A k \in CallsOf("Bitstring::update_header_from_self") :
        IF Len(cd_ops[k].buf) < 12 + 8 * Len(In(k).bitstring)
        THEN Failed(k, "BitstringLength") /\ Out(k).bytes = cd_ops[k].buf
        ELSE Succeeded(k)

\* The same without the lengths 12 + W .. 12 + 8 W - 1.
C21_OutsideGap ==
    \A k \in CallsOf("Bitstring::update_header_from_self") :
        IF Len(cd_ops[k].buf) < 12 + Len(In(k).bitstring)
        THEN Failed(k, "BitstringLength") /\ Out(k).bytes = cd_ops[k].buf
        ELSE Len(cd_ops[k].buf) >= 12 + 8 * Len(In(k).bitstring) => Succeeded(k)

\* Byte i (from 1) of the buffer after the call is byte (i - 13) mod 8 of word
\* (i - 13) / 8 of the bitstring, most significant byte first.
WordByte(bs, i) ==
    NumOf({ q \in 0..7 : (8 * (7 - ((i - 13) % 8)) + q) \in bs[((i - 13) \div 8) + 1] })

\* C28: a successful update_header_from_self on a bitstring of W words changes
\* only bytes 12 .. 12 + 8 W of the packet buffer, setting them to the words
\* in order, each big-endian; bytes 0..12 and every byte from 12 + 8 W on are
\* unchanged.
C28_Frame ==
    \A k \in CallsOf("Bitstring::update_header_from_self") :
        Succeeded(k) =>
            LET W == Len(In(k).bitstring)
                before == cd_ops[k].buf
                after == Out(k).bytes
            IN  /\ Len(after) = Len(before)
                /\ \A i \in 1..Len(after) :
                     after[i] = IF i \in 13..(12 + 8 * W)
                                THEN WordByte(In(k).bitstring, i)
                                ELSE before[i]

\* Two words were written into a buffer that has a payload behind them.
C28_Witness ==
    \E k \in CallsOf("Bitstring::update_header_from_self") :
        /\ Succeeded(k)
        /\ In(k).bitstring = << {63}, {0, 8} >>
        /\ Len(cd_ops[k].buf) = 12 + 16 + 3
        /\ Out(k).bytes # cd_ops[k].buf

\* In the daemon: every packet sent to a next hop for the datagram in hand is
\* the received packet but for the bitstring field, and what the local
\* endpoint gets is the received payload.
C28_ShellCopies ==
    \A j \in 1..Len(sent) :
        sent[j].dgram = n_read /\ sh_pc # "aborted" =>
            IF sent[j].sock = "bier_ip_sock"
            THEN /\ Len(sent[j].data) = Len(received)
                 /\ \A i \in 1..Len(received) :
                      i \notin 13..header_length(bier_header)
                          => sent[j].data[i] = received[i]
            ELSE sent[j].data = Slice(received, header_length(bier_header), Len(received))

-----------------------------------------------------------------------------
(* Further claims about process_bier.                                      *)

\* C30: process_bier never reads a word outside the working bitstring: after
\* every update inside the loop the working set keeps the word count of the
\* input, whatever the word count of the F-BMs, so that the call does not
\* abort on an index out of range.
C30_KeepsWidth ==
    /\ pb.pc \in {"for", "while"} => Len(pb.bitstring) = Len(arg_bitstring)
    /\ pb.ret # Panic("index out of bounds")

\* The loop is about to consult entries[bfr_idx] (bier.rs:43-45).
Consulting ==
    /\ pb.pc = "while"
    /\ (pb.bfr_idx % WordBits) \in pb.bitstring_word

\* C25: entries[i] is consulted, and a duplication emitted, only when bit i + 1
\* of the current working set is set, bit k being position (k-1) mod 64 of
\* word len-1-(k-1)/64: a bit of a higher word is not resolved against the
\* entry of a bit of a lower word.
C25_RightEntry ==
    (Consulting /\ FbmWidth(TheBift, Len(arg_bitstring)))
        => (pb.bfr_idx + 1) \in BitsOf(pb.bitstring)

\* The first path of every entry of t holds the bit of the entry in its F-BM.
SelfCovering(t) ==
    \A i \in 1..Len(t.entries) :
        t.entries[i].paths # <<>> => i \in BitsOf(t.entries[i].paths[1].bitstring)

\* The same on bitstrings of one word, when every selected F-BM clears the
\* bit that selected it.
C25_OneWord ==
    (Consulting /\ FbmWidth(TheBift, 1) /\ Len(arg_bitstring) = 1
                /\ SelfCovering(TheBift))
        => (pb.bfr_idx + 1) \in BitsOf(pb.bitstring)

\* C26: every call of process_bier ends, and it ends with Ok or Err: after
\* finitely many iterations the call has returned, a never-cleared bit
\* included, and what it returned is a value of the Result type.
C26_ReturnsOkOrErr == <>(Returned /\ pb.ret.tag \in {"Ok", "Err"})

\* Termination alone: every call comes back, with a Result or with an abort.
C26_Terminates == <>Returned

\* The case of the never-cleared bit: the scan has passed the end of the word
\* with the bit that selected a path still set, and the call comes back
\* with a Result once the entries run out.
NeverCleared ==
    /\ arg_bift_id \in 1..Len(bier_state.bifts)
    /\ Len(arg_bitstring) = 1
    /\ FbmWidth(TheBift, 1)
    /\ WellIndexed(TheBift)
    /\ pb.bfr_idx >= WordBits
C26_NeverCleared == [](NeverCleared => <>(Returned /\ pb.ret.tag \in {"Ok", "Err"}))
C26_PastTheWord == NeverCleared /\ Returned /\ pb.ret = Err("NoEntry")

-----------------------------------------------------------------------------
(* Claims about the textual form of a bitstring.                           *)

\* A binary literal: one digit or more, digits only.
IsLiteral(str) == str # <<>> /\ \A j \in 1..Len(str) : str[j] \in {Char0, Char1}

\* The bits of the number a literal denotes: bit 1 is the rightmost character.
LiteralBits(str) == { k \in 1..Len(str) : str[Len(str) + 1 - k] = Char1 }

\* The big-endian bytes of that number, zero-extended to whole words.
LiteralBytes(str) ==
    LET w == (Len(str) + WordBits - 1) \div WordBits
    IN  [j \in 1..(8 * w) |->
            NumOf({ i \in 0..7 : (8 * (8 * w - j) + i + 1) \in LiteralBits(str) })]

AgreesWithBytes(k) ==
    /\ Succeeded(k)
    /\ Out(k).bitstring = Bitstring_try_from(LiteralBytes(In(k).bytes)).val
    /\ BitsOf(Out(k).bitstring) = LiteralBits(In(k).bytes)

\* C27: from_str of a binary literal of any width gives the word vector
\* try_from gives on the big-endian bytes of the same number zero-extended to
\* whole words, so that bit 1 (the rightmost character) is the least
\* significant bit of the last word.
C27_SameNumbering ==
    \A k \in CallsOf("Bitstring::from_str") :
        IsLiteral(In(k).bytes) => AgreesWithBytes(k)

\* The same for the literals of at most one word.
C27_OneWord ==
    \A k \in CallsOf("Bitstring::from_str") :
        (IsLiteral(In(k).bytes) /\ Len(In(k).bytes) <= WordBits) => AgreesWithBytes(k)

\* A literal of one word with bits 1, 2 and 64 was parsed.
C27_ParsedOneWord ==
    /\ 1 \in CallsOf("Bitstring::from_str")
    /\ Out(1).bitstring = << {0, 1, 63} >>

-----------------------------------------------------------------------------
(* The configuration builder (src/src/bin/bier-config.rs) and the          *)
(* configuration files it writes, which the daemon reads (src/src/main.rs).*)
(* A topology file is the sequence of its lines <<a, b, metric>>; node     *)
(* names and addresses are numbers.                                        *)

\* The wide topology is a star of NWide nodes.
NWide == 65
\* Metrics of the small topologies are 1..MaxMetric.
MaxMetric == 2

Range(f) == { f[x] : x \in DOMAIN f }
Last(q) == q[Len(q)]
Front(q) == SubSeq(q, 1, Len(q) - 1)

\* .collect(): the sequence with every element computed.
collect(q) == SubSeq(q, 1, Len(q))

\* The node-to-address file: line k gives the loopback of node k.
node_to_ipv6(id) == 100 + id

Node(id, name, neighbours) ==
    [id |-> id, name |-> name, neighbours |-> neighbours, loopback |-> node_to_ipv6(id)]

\* Graph::from_file: nodes are numbered in the order their names first
\* appear; every line pushes (b, metric) on the adjacency list of a, then
\* (a, metric) on that of b.
from_file(lines) ==
    LET name_at(k) == lines[(k + 1) \div 2][IF k % 2 = 1 THEN 1 ELSE 2]
        first == { k \in 1..(2 * Len(lines)) : \A q \in 1..(k - 1) : name_at(q) # name_at(k) }
        id_of(name) ==
            LET k == CHOOSE k \in first : name_at(k) = name
            IN  Cardinality({ q \in first : q < k })
        push(k) ==
            LET split == lines[(k + 1) \div 2]
            IN  IF k % 2 = 1
                THEN [to |-> id_of(split[1]), edge |-> << id_of(split[2]), split[3] >>]
                ELSE [to |-> id_of(split[2]), edge |-> << id_of(split[1]), split[3] >>]
        pushes == [k \in 1..(2 * Len(lines)) |-> push(k)]
        neighbours(id) ==
            LET on_id(x) == x.to = id
                mine == SelectSeq(pushes, on_id)
            IN  [k \in 1..Len(mine) |-> mine[k].edge]
        name_of(id) == name_at(CHOOSE k \in first : Cardinality({ q \in first : q < k }) = id)
    IN  [i \in 1..Cardinality(first) |-> Node(i - 1, name_of(i - 1), neighbours(i - 1))]

\* Graph::graph_node_to_usize
graph_node_to_usize(ns) == [k \in 1..Len(ns) |-> ns[k].neighbours]

\* The nodes reached from the settled ones with their distances, nearest
\* first: the pairs <<node, distance>>.
RECURSIVE shortest(_, _)
shortest(graph, settled) ==
    LET done == { p[1] : p \in settled }
        cand == UNION { { << graph[p[1] + 1][j][1], p[2] + graph[p[1] + 1][j][2] >> :
                            j \in { j \in 1..Len(graph[p[1] + 1]) :
                                      graph[p[1] + 1][j][1] \notin done } } :
                        p \in settled }
    IN  IF cand = {} THEN settled
        ELSE LET m == CHOOSE d \in { c[2] : c \in cand } : \A c \in cand : d <= c[2]
             IN  shortest(graph, settled \cup { c \in cand : c[2] = m })

\* The members of a set of numbers, the largest first.
RECURSIVE Descending(_)
Descending(S) ==
    IF S = {} THEN <<>>
    ELSE LET m == CHOOSE x \in S : \A y \in S : y <= x
         IN  <<m>> \o Descending(S \ {m})

\* dijkstra(graph, source): for every node, its predecessors on any shortest
\* path from source (ties kept); the entry of node v is at index v + 1.
dijkstra(graph, source) ==
    LET dist == shortest(graph, { <<source, 0>> })
        edge_to(p, v) == \E j \in 1..Len(graph[p[1] + 1]) :
                            /\ graph[p[1] + 1][j][1] = v
                            /\ << v, p[2] + graph[p[1] + 1][j][2] >> \in dist
    IN  collect([k \in 1..Len(graph) |->
            Descending({ p[1] : p \in { p \in dist : edge_to(p, k - 1) } })])

\* The while loop of get_all_out_interfaces_to_destination: a depth-first
\* walk of the predecessors from the destination; a node one of whose
\* predecessors is the source is an out interface.
RECURSIVE walk_predecessors(_, _, _, _, _)
walk_predecessors(predecessors, source, stack, visited, out) ==
    IF stack = <<>> THEN out
    ELSE LET elem == Last(stack)
             rest == Front(stack)
             is_source(pred) == pred = source
             to_visit(pred) == pred # source /\ pred \notin (visited \cup {elem})
         IN  IF elem \in visited
             THEN walk_predecessors(predecessors, source, rest, visited, out)
             ELSE walk_predecessors(
                      predecessors, source,
                      rest \o SelectSeq(predecessors[elem + 1], to_visit),
                      visited \cup {elem},
                      out \o [k \in 1..Len(SelectSeq(predecessors[elem + 1], is_source)) |-> elem])

get_all_out_interfaces_to_destination(predecessors, source, destination) ==
    IF source = destination THEN << source >>
    ELSE walk_predecessors(predecessors, source, << destination >>, {}, <<>>)

\* The fold that writes the F-BM of one next hop: the destinations from the
\* last to the first, a '1' for each one reached through the next hop, a '0'
\* for the others once a '1' is written; so the string starts at the last
\* destination reached through the next hop.
fbm_fold(next_hop, the_next_hop) ==
    LET through == { i \in 1..Len(next_hop) : the_next_hop \in Range(next_hop[i]) }
        top == IF through = {} THEN 0 ELSE CHOOSE i \in through : \A j \in through : j <= i
    IN  [j \in 1..top |-> IF (top + 1 - j) \in through THEN Char1 ELSE Char0]

\* One iteration of the loop of get_bier_config: the BierState of `node`.
get_bier_config(ns, node) ==
    LET nb_nodes == Len(ns)
        predecessors == dijkstra(graph_node_to_usize(ns), node)
        next_hop == collect([i \in 1..nb_nodes |->
                        get_all_out_interfaces_to_destination(predecessors, node, i - 1)])
        path(the_next_hop) ==
            BierEntryPath(
                Bitstring_from_str(fbm_fold(next_hop, the_next_hop)).val,
                ns[the_next_hop + 1].loopback)
        entry(bfr_id) ==
            BiftEntry(bfr_id,
                      [k \in 1..Len(next_hop[bfr_id + 1]) |-> path(next_hop[bfr_id + 1][k])])
    IN  [loopback |-> ns[node + 1].loopback,
         bifts |-> << Bift(1, "Bier", node + 1, [i \in 1..nb_nodes |-> entry(i - 1)]) >>]

\* Serialize_repr / Deserialize_repr for BiftType.
BiftType_repr(t) == IF t = "Bier" THEN 1 ELSE 2
BiftType_from_repr(n) ==
    IF n = 1 THEN Ok("Bier") ELSE IF n = 2 THEN Ok("BierTe") ELSE Err("invalid value")

\* serde_json::to_writer of a BierState: the JSON document, with every
\* bitstring a string and every BIFT type a number.  Addresses and integers
\* are written and read back by serde and are kept as they are.
serialize_state(st) ==
    [loopback |-> st.loopback,
     bifts |-> [b \in 1..Len(st.bifts) |->
        [bift_id |-> st.bifts[b].bift_id,
         bift_type |-> BiftType_repr(st.bifts[b].bift_type),
         bfr_id |-> st.bifts[b].bfr_id,
         entries |-> [e \in 1..Len(st.bifts[b].entries) |->
            [bit |-> st.bifts[b].entries[e].bit,
             paths |-> [k \in 1..Len(st.bifts[b].entries[e].paths) |->
                [bitstring |-> Bitstring_serialize(st.bifts[b].entries[e].paths[k].bitstring),
                 next_hop |-> st.bifts[b].entries[e].paths[k].next_hop]]]]]]]

\* A state that stands for no state.
NoState == [loopback |-> 0, bifts |-> <<>>]

\* serde_json::from_value into a BierState: fails when a bitstring does not
\* parse or a BIFT type is not one of the enum.
deserialize_state(doc) ==
    LET bad_type == \E b \in 1..Len(doc.bifts) :
                        BiftType_from_repr(doc.bifts[b].bift_type).tag = "Err"
        bad_bitstring ==
            \E b \in 1..Len(doc.bifts) : \E e \in 1..Len(doc.bifts[b].entries) :
                \E k \in 1..Len(doc.bifts[b].entries[e].paths) :
                    Bitstring_from_str(doc.bifts[b].entries[e].paths[k].bitstring).tag = "Err"
    IN  IF bad_type \/ bad_bitstring
        THEN [tag |-> "Err", state |-> NoState]
        ELSE [tag |-> "Ok", state |->
            [loopback |-> doc.loopback,
             bifts |-> [b \in 1..Len(doc.bifts) |->
                [bift_id |-> doc.bifts[b].bift_id,
                 bift_type |-> BiftType_from_repr(doc.bifts[b].bift_type).val,
                 bfr_id |-> doc.bifts[b].bfr_id,
                 entries |-> [e \in 1..Len(doc.bifts[b].entries) |->
                    [bit |-> doc.bifts[b].entries[e].bit,
                     paths |-> [k \in 1..Len(doc.bifts[b].entries[e].paths) |->
                        [bitstring |->
                            Bitstring_from_str(doc.bifts[b].entries[e].paths[k].bitstring).val,
                         next_hop |-> doc.bifts[b].entries[e].paths[k].next_hop]]]]]]]]

\* Topology files: the extended diamond of the builder's test (a-b, a-c,
\* b-d, c-d, d-e), a pair, triangles and squares of every metric, whose
\* names do not come in the order of their numbers, and the wide star.
DiamondTail == << <<1, 2, 1>>, <<1, 3, 1>>, <<2, 4, 1>>, <<3, 4, 1>>, <<4, 5, 1>> >>
WideStar == [k \in 1..(NWide - 1) |-> <<1, k + 1, 1>>]
Metrics == 1..MaxMetric
SmallTopologies ==
    { DiamondTail }
    \cup { << <<1, 2, m>> >> : m \in Metrics }
    \cup { << <<3, 1, m[1]>>, <<1, 2, m[2]>>, <<2, 3, m[3]>> >> : m \in [1..3 -> Metrics] }
    \cup { << <<1, 2, 1>>, <<2, 3, m[1]>>, <<3, 4, 1>>, <<4, 1, m[2]>> >> :
             m \in [1..2 -> Metrics] }
Topologies == SmallTopologies \cup { WideStar }

\* Configuration files written by hand: one BIER table with one entry whose
\* F-BM is any of the strings, or a table of an unknown type, and a BIER-TE
\* table.
GivenFile(str, ty) ==
    [loopback |-> node_to_ipv6(0),
     bifts |-> << [bift_id |-> 1, bift_type |-> ty, bfr_id |-> 1,
                   entries |-> << [bit |-> 1,
                                   paths |-> << [bitstring |-> str,
                                                 next_hop |-> node_to_ipv6(1)] >>] >>],
                  [bift_id |-> 2, bift_type |-> 2, bfr_id |-> 1, entries |-> <<>>] >>]
GivenFiles ==
    { GivenFile(str, 1) : str \in CodecStrings } \cup { GivenFile(<<Char1>>, 3) }

InitConfig ==
    /\ \/ /\ \E t \in Topologies : nodes = from_file(t)
          /\ files = <<>>
       \/ /\ nodes = <<>>
          /\ \E f \in GivenFiles : files = << f >>
    /\ cfg_node = 0
    /\ loaded = <<>>
    /\ saved = <<>>
    /\ reloaded = <<>>
    /\ net = <<>>
    /\ bier_state = StateOf(DummyBift)
    /\ arg_bitstring = <<>>
    /\ arg_bift_id = 0
    /\ pb = Frame0
    /\ default_unix_path = None
    /\ ShellIdle
    /\ CodecIdle

\* get_bier_config, one iteration of `for node in 0..nb_nodes`: the BIFT of
\* the node is computed and written to its file.
BuildNode ==
    /\ cfg_node < Len(nodes)
    /\ loaded = <<>>
    /\ files' = Append(files, serialize_state(get_bier_config(nodes, cfg_node)))
    /\ cfg_node' = cfg_node + 1
    /\ UNCHANGED <<nodes, loaded, saved, reloaded>>
    /\ UNCHANGED <<bier_state, engine_vars, shell_vars, codec_vars, net>>

\* main.rs:39-40: a daemon reads the file written last.
Load ==
    /\ files # <<>>
    /\ loaded = <<>>
    /\ loaded' = << deserialize_state(Last(files)) >>
    /\ UNCHANGED <<nodes, cfg_node, files, saved, reloaded>>
    /\ UNCHANGED <<bier_state, engine_vars, shell_vars, codec_vars, net>>

\* The state read is serialized again.
Save ==
    /\ loaded # <<>>
    /\ loaded[1].tag = "Ok"
    /\ saved = <<>>
    /\ saved' = << serialize_state(loaded[1].state) >>
    /\ UNCHANGED <<nodes, cfg_node, files, loaded, reloaded>>
    /\ UNCHANGED <<bier_state, engine_vars, shell_vars, codec_vars, net>>

\* ... and read back.
Reload ==
    /\ saved # <<>>
    /\ reloaded = <<>>
    /\ reloaded' = << deserialize_state(saved[1]) >>
    /\ UNCHANGED <<nodes, cfg_node, files, loaded, saved>>
    /\ UNCHANGED <<bier_state, engine_vars, shell_vars, codec_vars, net>>

NextConfig == BuildNode \/ Load \/ Save \/ Reload

SpecConfig == InitConfig /\ [][NextConfig]_vars

-----------------------------------------------------------------------------
(* Claims about the configuration files.                                   *)

\* The paths of a state or of a document, as <<bift, entry, path>> indexes.
PathsOf(st) ==
    { <<b, e, k>> \in (1..Len(st.bifts)) \X (1..NWide + 1) \X (1..NWide + 1) :
        /\ e <= Len(st.bifts[b].entries)
        /\ k <= Len(st.bifts[b].entries[e].paths) }
PathAt(st, x) == st.bifts[x[1]].entries[x[2]].paths[x[3]]

\* C22: a BFR state obtained by deserializing a configuration is given back
\* by deserialize(serialize(.)): every bitstring is written as a binary
\* string of 64 characters per word, and parsing that string gives the same
\* words in the same order.
C22_RoundTrip ==
    /\ saved # <<>> =>
         \A x \in PathsOf(loaded[1].state) :
            /\ Len(PathAt(saved[1], x).bitstring)
                  = WordBits * Len(PathAt(loaded[1].state, x).bitstring)
            /\ Bitstring_from_str(PathAt(saved[1], x).bitstring)
                  = Ok(PathAt(loaded[1].state, x).bitstring)
    /\ reloaded # <<>> => reloaded[1] = loaded[1]

\* A state with a bitstring of two different words went through the round trip.
C22_Witness ==
    /\ reloaded # <<>>
    /\ \E x \in PathsOf(loaded[1].state) :
          /\ Len(PathAt(loaded[1].state, x).bitstring) = 2
          /\ PathAt(loaded[1].state, x).bitstring[1] # PathAt(loaded[1].state, x).bitstring[2]

\* The builder has written a file: the last one is that of node cfg_node - 1.
Built == nodes # <<>> /\ files # <<>>
TheFile == Last(files)
TheTable == TheFile.bifts[1]

\* What the builder writes apart from the number of each entry.
TableShape ==
    /\ Len(TheFile.bifts) = 1
    /\ TheTable.bift_id = 1
    /\ BiftType_from_repr(TheTable.bift_type) = Ok("Bier")
    /\ TheTable.bfr_id = (cfg_node - 1) + 1
    /\ Len(TheTable.entries) = Len(nodes)

\* C23: the BIFT the builder emits for node s of N has N entries, entry i
\* (from 0) with bit i + 1, bift_id 1, type BIER and bfr_id s + 1: the
\* numbering process_bier asserts (bit - 1 = index).
C23_Indexing ==
    Built => /\ TableShape
             /\ \A i \in 1..Len(TheTable.entries) : TheTable.entries[i].bit = (i - 1) + 1

\* The same with the numbers the entries are given: entry i has bit i.
C23_ZeroBased ==
    Built => /\ TableShape
             /\ \A i \in 1..Len(TheTable.entries) : TheTable.entries[i].bit = i - 1

\* The last file of the extended diamond is written.
C23_LastNode == Built /\ Len(nodes) = 5 /\ cfg_node = 5

\* The neighbours of s that start a shortest path to d, from the distances.
NextHops(graph, dist, s, d) ==
    IF s = d THEN { s }
    ELSE { graph[s + 1][j][1] : j \in { j \in 1..Len(graph[s + 1]) :
              \E p \in dist[graph[s + 1][j][1] + 1] :
                  /\ p[1] = d
                  /\ << d, graph[s + 1][j][2] + p[2] >> \in dist[s + 1] } }

\* The table a daemon reads from the last file has, for every destination,
\* one path per next hop, with the destinations of that next hop as F-BM.
RightPaths(table, ns, s) ==
    LET graph == graph_node_to_usize(ns)
        dist == collect([k \in 1..Len(ns) |-> shortest(graph, { <<k - 1, 0>> })])
        hops == collect([k \in 1..Len(ns) |-> NextHops(graph, dist, s, k - 1)])
        fbm(h) == { k \in 1..Len(ns) : h \in hops[k] }
    IN  \A d \in 1..Len(ns) :
            /\ Len(table.entries[d].paths) = Cardinality(hops[d])
            /\ \A h \in hops[d] :
                  \E k \in 1..Len(table.entries[d].paths) :
                      /\ table.entries[d].paths[k].next_hop = ns[h + 1].loopback
                      /\ BitsOf(table.entries[d].paths[k].bitstring) = fbm(h)

\* C24: in the BIFT of source s the entry of destination d has one path per
\* neighbour h in next_hops(s, d), whose F-BM has bit d' + 1 set exactly for
\* the destinations d' with h in next_hops(s, d') and whose next hop is the
\* loopback of h; the entry of s itself has the single path to its own
\* loopback with only its own bit.
C24_Paths ==
    Built => RightPaths(deserialize_state(TheFile).state.bifts[1], nodes, cfg_node - 1)

\* The same for topologies of at most 64 nodes.
C24_OneWord ==
    (Built /\ Len(nodes) <= WordBits)
        => RightPaths(deserialize_state(TheFile).state.bifts[1], nodes, cfg_node - 1)

\* Node a of the extended diamond gets the F-BMs 00001, 11010 and 11100,
\* and two paths to d and to e.
C24_Diamond ==
    /\ Built /\ Len(nodes) = 5 /\ cfg_node = 1
    /\ LET es == deserialize_state(TheFile).state.bifts[1].entries
       IN  /\ [i \in 1..5 |-> [k \in 1..Len(es[i].paths) |-> BitsOf(es[i].paths[k].bitstring)]]
                = << << {1} >>, << {2, 4, 5} >>, << {3, 4, 5} >>,
                     << {2, 4, 5}, {3, 4, 5} >>, << {2, 4, 5}, {3, 4, 5} >> >>
           /\ [i \in 1..5 |-> [k \in 1..Len(es[i].paths) |-> es[i].paths[k].next_hop]]
                = << << node_to_ipv6(0) >>, << node_to_ipv6(1) >>, << node_to_ipv6(2) >>,
                     << node_to_ipv6(1), node_to_ipv6(2) >>,
                     << node_to_ipv6(1), node_to_ipv6(2) >> >>

-----------------------------------------------------------------------------
(* A BIER domain: every node of a topology runs the daemon on the file the *)
(* builder wrote for it, and one packet is injected.  A packet in flight   *)
(* is <<node, bitstring>>: the node it is addressed to and the bitstring   *)
(* of its header.                                                          *)

\* At most MaxCopies copies are followed.
MaxCopies == 8

\* The files of all the nodes, as get_bier_config leaves them.
AllFiles(ns) == [i \in 1..Len(ns) |-> serialize_state(get_bier_config(ns, i - 1))]

\* The node whose loopback is the address.
NodeOfAddress(ns, ip) == CHOOSE i \in 0..(Len(ns) - 1) : ns[i + 1].loopback = ip

InitNetwork ==
    /\ \E t \in SmallTopologies : nodes = from_file(t)
    /\ files = AllFiles(nodes)
    /\ cfg_node = Len(nodes)
    /\ loaded = <<>>
    /\ saved = <<>>
    /\ reloaded = <<>>
    /\ \E src \in 0..(Len(nodes) - 1) : \E bits \in SUBSET (1..Len(nodes)) :
          net = [src |-> src, bits |-> bits,
                 flights |-> << << src, BitstringOf(bits, 1) >> >>,
                 delivered |-> [i \in 1..Len(nodes) |-> 0],
                 aborted |-> {}, dropped |-> 0, copies |-> 0]
    /\ bier_state = StateOf(DummyBift)
    /\ arg_bitstring = <<>>
    /\ arg_bift_id = 0
    /\ pb = Frame0
    /\ default_unix_path = None
    /\ ShellIdle
    /\ CodecIdle

\* The copies of one process_bier result: those for the local endpoint and
\* those sent to a next hop.
LocalCopies(out) == { k \in 1..Len(out) : out[k][2] = None }
SentCopies(ns, out) ==
    LET sent_to(x) == x[2] # None
        those == SelectSeq(out, sent_to)
    IN  [k \in 1..Len(those) |-> << NodeOfAddress(ns, those[k][2][1]), those[k][1] >>]

\* main.rs:139-191 at one node: a packet in flight reaches its node, whose
\* daemon (if it still runs) gives it to process_bier with BIFT 1 and
\* transmits every copy; an abort ends the daemon, an error drops the packet.
Hop ==
    /\ net.copies < MaxCopies
    /\ \E k \in 1..Len(net.flights) :
         LET n == net.flights[k][1]
             bs == net.flights[k][2]
             others == SubSeq(net.flights, 1, k - 1)
                       \o SubSeq(net.flights, k + 1, Len(net.flights))
             st == deserialize_state(files[n + 1]).state
         IN  IF n \in net.aborted
             THEN net' = [net EXCEPT !.flights = others, !.dropped = @ + 1]
             ELSE \E r \in process_bier(st, bs, 1) :
                     net' = IF r.tag = "Panic"
                            THEN [net EXCEPT !.flights = others, !.aborted = @ \cup {n}]
                            ELSE IF r.tag = "Err"
                            THEN [net EXCEPT !.flights = others, !.dropped = @ + 1]
                            ELSE [net EXCEPT
                                    !.flights = others \o SentCopies(nodes, r.val),
                                    !.delivered[n + 1] = @ + Cardinality(LocalCopies(r.val)),
                                    !.copies = @ + Len(r.val)]
    /\ UNCHANGED <<bier_state, engine_vars, shell_vars, codec_vars, config_vars>>

NextNetwork == Hop

SpecNetwork == InitNetwork /\ [][NextNetwork]_vars

\* C29: a packet injected at any node of a connected topology with any
\* bitstring over bits 1..N is processed without error at every hop, is
\* delivered locally at most once at each node whose bit is set and at no
\* other, exactly once when no copy is left in flight, and the copies are
\* finitely many.
C29_EndToEnd ==
    /\ net.aborted = {}
    /\ net.dropped = 0
    /\ net.copies < MaxCopies
    /\ \A i \in 1..Len(nodes) :
          /\ net.delivered[i] <= (IF i \in net.bits THEN 1 ELSE 0)
          /\ net.flights = <<>> => net.delivered[i] = (IF i \in net.bits THEN 1 ELSE 0)

\* What happens instead: the first daemon that meets a set bit aborts; no
\* copy is made and nothing is delivered.
C29_NothingDelivered ==
    /\ net.copies = 0
    /\ net.dropped = 0
    /\ \A i \in 1..Len(nodes) : net.delivered[i] = 0
    /\ (net.flights = <<>> /\ net.bits # {}) => net.aborted = { net.src }

============================================================================
